---- MODULE Spec2Model ----
(***************************************************************************)
(* Model of the ingestion / synchronization core of mppitstop:             *)
(* scrapeMotorcyclePage, scrapeParts, syncPartImages, downloadImage and    *)
(* markDeletedParts, over the SQLite tables motorcycles, parts,            *)
(* parts_history and part_images and the local image directory.            *)
(*                                                                         *)
(* Conventions.  SQL NULL / JS null is NULL (the empty tuple) for text,    *)
(* url and path columns and NullTime for DATETIME columns.  A text that    *)
(* is a URL or a path is the tuple of its path segments.  md5 is taken to  *)
(* be injective: an id is the tuple of the values that were hashed.        *)
(*                                                                         *)
(* Eight specifications share the variables.  Spec is the crawl passes     *)
(* and what they write.  DownloadSpec is downloadImage, call by call, on   *)
(* the images directory, and PathSpec the same for any URL a page can      *)
(* hold.  JobSpec is the control flow of POST /scrape and of the runs it   *)
(* starts, with their cancellation signals.  FilterSpec is the link        *)
(* filter of a run.  WriteSpec is a pass over one vehicle with every db    *)
(* call a step that returns or throws.  SyncSpec is syncPartImages, image  *)
(* by image, each probe and transfer failing or not.  ExtractSpec is the   *)
(* extraction of the records of a page and their deduplication.            *)
(***************************************************************************)
EXTENDS Integers, Sequences, FiniteSets, TLC

\* ---------------------------------------------------------------- bounds
\* Number of crawl passes (calls of scrapeMotorcyclePage) in a behaviour.
MaxPass == 3
\* Number of times the remote site replaces the bytes of an image.
MaxRemoteChanges == 1
\* Number of model-page fetches that fail in a row.
MaxFetchFailures == 1
\* Number of calls of downloadImage in a behaviour of DownloadSpec.
MaxDownloads == 3
\* Number of crawl runs (AbortControllers) in a behaviour of JobSpec.
MaxRuns == 2
\* Model pages per listing, parts per page and images per part in JobSpec.
MaxLinks == 2
MaxParts == 2
MaxImages == 1
\* Number of filter expressions in the allow-list of a request.
MaxFilters == 2
\* Number of calls of syncPartImages taken image by image.
MaxSyncs == 2
\* Number of tables of a model page.
MaxTables == 3

\* ---------------------------------------------------------------- values
NULL == <<>>
NullText == "<null>"
NullTime == 0
EUR == "EUR"

\* ------------------------------------------------------- pure functions

\* generateId: md5 of the text; injective, so the id is the hashed tuple.
generateId(text) == text

\* toBrandCase: tokens of at most three characters are upper-cased, longer
\* ones get a capital first letter.  A cased token is the pair of the rule
\* applied and the (case-insensitive) token.
toBrandCase(token) ==
  IF token = "" THEN ""
  ELSE IF Len(token) <= 3 THEN "UPPER:" \o token
  ELSE "Title:" \o token

\* extractBrandModel: the title is the sequence of its blank-separated
\* words; brand is the cased first word, model the remaining words.
extractBrandModel(title) ==
  IF title = <<>> THEN <<"Unknown", <<"Unknown">> >>
  ELSE LET brand == toBrandCase(Head(title))
           model == Tail(title)
       IN << IF brand = "" THEN "Unknown" ELSE brand,
             IF model = <<>> THEN <<"Unknown">> ELSE model >>

\* normalizeModelUrl: the URL without its #fragment.
normalizeModelUrl(url) == [url EXCEPT !.hash = ""]

\* The id of the motorcycle a link text hashes to: md5 of `brand-model`.
MotorcycleIdOf(text) ==
  LET bm == extractBrandModel(text) IN generateId(<<bm[1], bm[2]>>)

\* The id of a part: md5 of `motorcycleId-idSeed`, idSeed being the part
\* number or, without one, the name.
idSeedNameFirst(part) == part.name
idSeed(part) == IF part.partNumber # "" THEN part.partNumber ELSE part.name

PartIdOf(motorcycleId, part) == generateId(<<motorcycleId, idSeed(part)>>)

\* ---------------------------------------------------------- link filters
\* A text of the filter matching is the sequence of its characters.
UpperLetters == <<"A", "B", "C", "D", "E", "F", "G", "H", "I", "J", "K", "L", "M", "N", "O", "P", "Q", "R", "S", "T", "U", "V", "W", "X", "Y", "Z">>
LowerLetters == <<"a", "b", "c", "d", "e", "f", "g", "h", "i", "j", "k", "l", "m", "n", "o", "p", "q", "r", "s", "t", "u", "v", "w", "x", "y", "z">>
Digits == {"0", "1", "2", "3", "4", "5", "6", "7", "8", "9"}
Blank == " "

LetterIndex(letters, c) == CHOOSE i \in 1..Len(letters) : letters[i] = c
IsUpper(c) == \E i \in 1..Len(UpperLetters) : UpperLetters[i] = c
IsLower(c) == \E i \in 1..Len(LowerLetters) : LowerLetters[i] = c

\* String.prototype.toLowerCase / toUpperCase.
toLowerCase(str) ==
  [i \in 1..Len(str) |->
     IF IsUpper(str[i]) THEN LowerLetters[LetterIndex(UpperLetters, str[i])]
     ELSE str[i]]
toUpperCase(str) ==
  [i \in 1..Len(str) |->
     IF IsLower(str[i]) THEN UpperLetters[LetterIndex(LowerLetters, str[i])]
     ELSE str[i]]

\* .replace(/[^a-z0-9]+/g, ' '): every maximal run of characters other
\* than a-z and 0-9 becomes one blank.
RECURSIVE ReplaceNonAlnum(_, _)
ReplaceNonAlnum(str, acc) ==
  IF str = <<>> THEN acc
  ELSE IF IsLower(Head(str)) \/ Head(str) \in Digits
    THEN ReplaceNonAlnum(Tail(str), Append(acc, Head(str)))
  ELSE IF acc # <<>> /\ acc[Len(acc)] = Blank
    THEN ReplaceNonAlnum(Tail(str), acc)
  ELSE ReplaceNonAlnum(Tail(str), Append(acc, Blank))

\* .replace(/\s+/g, ' '): every run of blanks becomes one blank.
RECURSIVE CollapseBlanks(_, _)
CollapseBlanks(str, acc) ==
  IF str = <<>> THEN acc
  ELSE IF Head(str) = Blank /\ acc # <<>> /\ acc[Len(acc)] = Blank
    THEN CollapseBlanks(Tail(str), acc)
  ELSE CollapseBlanks(Tail(str), Append(acc, Head(str)))

\* String.prototype.trim.
RECURSIVE trim(_)
trim(str) ==
  IF str = <<>> THEN str
  ELSE IF Head(str) = Blank THEN trim(Tail(str))
  ELSE IF str[Len(str)] = Blank THEN trim(SubSeq(str, 1, Len(str) - 1))
  ELSE str

\* .split(' ').filter(Boolean), .split(/\s+/).filter(Boolean): the maximal
\* runs of characters other than the blank; word is the run being read.
RECURSIVE SplitWords(_, _, _)
SplitWords(str, word, acc) ==
  IF str = <<>> THEN IF word = <<>> THEN acc ELSE Append(acc, word)
  ELSE IF Head(str) = Blank
    THEN SplitWords(Tail(str), <<>>, IF word = <<>> THEN acc ELSE Append(acc, word))
  ELSE SplitWords(Tail(str), Append(word, Head(str)), acc)

\* Array.prototype.join(' ').
RECURSIVE JoinWords(_)
JoinWords(words) ==
  IF words = <<>> THEN <<>>
  ELSE IF Len(words) = 1 THEN words[1]
  ELSE words[1] \o <<Blank>> \o JoinWords(Tail(words))

\* String.prototype.includes.
includes(haystack, token) ==
  \E i \in 0..(Len(haystack) - Len(token)) :
    SubSeq(haystack, i + 1, i + Len(token)) = token

Unknown == <<"U", "n", "k", "n", "o", "w", "n">>

\* toBrandCase and extractBrandModel on the characters of the title.
toBrandCaseText(value) ==
  LET token == trim(value)
  IN IF token = <<>> THEN <<>>
     ELSE IF Len(token) <= 3 THEN toUpperCase(token)
     ELSE toUpperCase(<<token[1]>>) \o toLowerCase(Tail(token))

extractBrandModelText(title) ==
  LET cleaned == trim(CollapseBlanks(title, <<>>))
      words == SplitWords(cleaned, <<>>, <<>>)
      brand == IF words = <<>> THEN <<>> ELSE toBrandCaseText(words[1])
      model == IF words = <<>> THEN <<>> ELSE trim(JoinWords(Tail(words)))
  IN IF cleaned = <<>> THEN <<Unknown, Unknown>>
     ELSE << IF brand = <<>> THEN Unknown ELSE brand,
             IF model = <<>> THEN Unknown ELSE model >>

\* .toLowerCase().replace(/[^a-z0-9]+/g, ' ').trim()
Normalized(str) == trim(ReplaceNonAlnum(toLowerCase(str), <<>>))

\* normalizeFilterList: the token lists of the filters, without the empty
\* ones (null, not an array, yields none as the empty array does).
normalizeFilterList(allowedBrands) ==
  SelectSeq([i \in 1..Len(allowedBrands) |->
               SplitWords(Normalized(allowedBrands[i]), <<>>, <<>>)],
            LAMBDA tokens : Len(tokens) > 0)

matchesAllowedFilterAllGroups(filters, linkText, brand, model) ==
  \A g \in 1..Len(filters) : \A t \in 1..Len(filters[g]) :
    includes(Normalized(linkText \o <<Blank>> \o brand \o <<Blank>> \o model),
             filters[g][t])

\* matchesAllowedFilter: filters.some(tokens => tokens.every(token =>
\* haystack.includes(token))), true without filters.
matchesAllowedFilter(filters, linkText, brand, model) ==
  LET haystack == Normalized(linkText \o <<Blank>> \o brand \o <<Blank>> \o model)
  IN \/ Len(filters) = 0
     \/ \E g \in 1..Len(filters) : \A t \in 1..Len(filters[g]) :
          includes(haystack, filters[g][t])

\* ------------------------------------------------------- image download

\* A URL of an image is the sequence of the segments of its decoded
\* pathname (decodeURIComponent, backslashes as slashes), which can be
\* empty, '.' or '..'.

\* normalized.toLowerCase() has the segment 'images'.
IsImagesMarker(seg) == seg \in {"images", "Images", "IMAGES"}

\* Position of the first '/images/' marker of a URL path, 0 if none.
RECURSIVE MarkerIndex(_, _)
MarkerIndex(segs, i) ==
  IF i > Len(segs) THEN 0
  ELSE IF IsImagesMarker(segs[i]) /\ i < Len(segs) THEN i
  ELSE MarkerIndex(segs, i + 1)

getLocalImagePathUnfiltered(imageUrl) ==
  LET idx == MarkerIndex(imageUrl, 1)
  IN IF idx > 0 THEN SubSeq(imageUrl, idx + 1, Len(imageUrl)) ELSE imageUrl

\* getLocalImagePathFromUrl: the path after the marker (the whole path
\* without one), without empty, '.' and '..' segments; NULL if none is left.
getLocalImagePathFromUrl(imageUrl) ==
  LET idx == MarkerIndex(imageUrl, 1)
      relative == IF idx > 0 THEN SubSeq(imageUrl, idx + 1, Len(imageUrl))
                  ELSE imageUrl
  IN SelectSeq(relative, LAMBDA seg : seg # "" /\ seg # "." /\ seg # "..")

\* `images/${relative}`
DisplayPath(relative) == <<"images">> \o relative

\* `images/_history/${dir}/${name}__${Date.now()}${ext}`
HistoryPath(relative, now) ==
  <<"images", "_history">> \o relative \o <<"__" \o ToString(now)>>

DownloadToAlwaysWrites(relative, files, backups, content, probeOk, getOk, now) ==
  IF relative = NULL \/ (~getOk /\ ~(probeOk /\ relative \in DOMAIN files))
    THEN [result |-> [ok |-> FALSE, filepath |-> NULL, size |-> 0, status |-> "",
                      previous_filepath |-> NULL],
          files |-> files, backups |-> backups]
    ELSE [result |-> [ok |-> TRUE, filepath |-> DisplayPath(relative),
                      size |-> content.size,
                      status |-> IF relative \notin DOMAIN files THEN "downloaded_new"
                                 ELSE IF files[relative].size = content.size
                                   THEN "skipped_unchanged"
                                 ELSE "downloaded_updated",
                      previous_filepath |-> IF relative \in DOMAIN files
                                              THEN HistoryPath(relative, now)
                                              ELSE NULL],
          files |-> (relative :> content) @@ files,
          backups |-> IF relative \in DOMAIN files
                        THEN (HistoryPath(relative, now) :> files[relative]) @@ backups
                        ELSE backups]

\* downloadImage, for the local path `relative` derived from the URL.  files
\* and backups map the local paths that exist to the
\* bytes stored there; content is what a GET of the URL returns; probeOk
\* says whether the HEAD probe yields a content-length, getOk whether the
\* GET succeeds; now is Date.now().  Returns the result object (ok = FALSE
\* for the null result) and the files and backups afterwards.
DownloadTo(relative, files, backups, content, probeOk, getOk, now) ==
  LET failed == [ok |-> FALSE, filepath |-> NULL, size |-> 0, status |-> "",
                 previous_filepath |-> NULL]
      localKnown == relative \in DOMAIN files
      unchanged == [ok |-> TRUE, filepath |-> DisplayPath(relative),
                    size |-> files[relative].size,
                    status |-> "skipped_unchanged", previous_filepath |-> NULL]
  IN
  IF relative = NULL
    THEN [result |-> failed, files |-> files, backups |-> backups]
  ELSE IF localKnown /\ probeOk /\ files[relative].size = content.size
    THEN [result |-> unchanged, files |-> files, backups |-> backups]
  ELSE IF ~getOk
    THEN [result |-> failed, files |-> files, backups |-> backups]
  ELSE IF localKnown /\ files[relative].size = content.size
    THEN [result |-> unchanged, files |-> files, backups |-> backups]
  ELSE
    LET historyRelative == HistoryPath(relative, now)
        backups1 == IF localKnown
                      THEN (historyRelative :> files[relative]) @@ backups
                      ELSE backups
        files1 == (relative :> content) @@ files
    IN [result |-> [ok |-> TRUE, filepath |-> DisplayPath(relative),
                    size |-> content.size,
                    status |-> IF localKnown THEN "downloaded_updated"
                               ELSE "downloaded_new",
                    previous_filepath |-> IF localKnown THEN historyRelative
                                          ELSE NULL],
        files |-> files1, backups |-> backups1]

downloadImage(imageUrl, files, backups, content, probeOk, getOk, now) ==
  DownloadTo(getLocalImagePathFromUrl(imageUrl), files, backups, content,
             probeOk, getOk, now)

\* [...new Set(urls.filter(Boolean))]: first occurrences, in order.
RECURSIVE UniqueUrls(_, _)
UniqueUrls(urls, acc) ==
  IF urls = <<>> THEN acc
  ELSE LET u == Head(urls)
       IN UniqueUrls(Tail(urls),
                     IF u = NULL \/ (\E k \in 1..Len(acc) : acc[k] = u)
                       THEN acc ELSE Append(acc, u))

RecordImageResetsPath(partId, imageUrl, i, st, dl) ==
  LET imagePath == IF dl.result.ok THEN dl.result.filepath ELSE NULL
      known == \E k \in 1..Len(st.images) :
                 st.images[k].part_id = partId /\ st.images[k].image_url = imageUrl
      inserted == IF known THEN st.images
                  ELSE Append(st.images,
                              [part_id |-> partId, image_url |-> imageUrl,
                               image_path |-> imagePath, sort_order |-> i - 1])
      updated == [k \in 1..Len(inserted) |->
                    IF inserted[k].part_id = partId
                       /\ inserted[k].image_url = imageUrl
                      THEN [inserted[k] EXCEPT !.image_path = imagePath]
                      ELSE inserted[k]]
      results == IF dl.result.ok /\ dl.result.status # ""
                   THEN Append(st.results,
                               [url |-> imageUrl, path |-> imagePath,
                                size |-> dl.result.size,
                                status |-> dl.result.status,
                                previousPath |-> dl.result.previous_filepath])
                   ELSE st.results
  IN [files |-> dl.files, backups |-> dl.backups, images |-> updated,
      results |-> results]

\* One iteration of the loop of syncPartImages after the download dl of
\* uniqueUrls[i]: the part_images upsert and the result pushed; st holds
\* files, backups, the part_images table and the results so far.
RecordImage(partId, imageUrl, i, st, dl) ==
  LET imagePath == IF dl.result.ok THEN dl.result.filepath ELSE NULL
      known == \E k \in 1..Len(st.images) :
                 st.images[k].part_id = partId /\ st.images[k].image_url = imageUrl
      \* INSERT OR IGNORE INTO part_images ... sort_order = i
      inserted == IF known THEN st.images
                  ELSE Append(st.images,
                              [part_id |-> partId, image_url |-> imageUrl,
                               image_path |-> imagePath, sort_order |-> i - 1])
      \* UPDATE part_images SET image_path = ? (only with a path)
      updated == IF imagePath = NULL THEN inserted
                 ELSE [k \in 1..Len(inserted) |->
                         IF inserted[k].part_id = partId
                            /\ inserted[k].image_url = imageUrl
                           THEN [inserted[k] EXCEPT !.image_path = imagePath]
                           ELSE inserted[k]]
      results == IF dl.result.ok /\ dl.result.status # ""
                   THEN Append(st.results,
                               [url |-> imageUrl, path |-> imagePath,
                                size |-> dl.result.size,
                                status |-> dl.result.status,
                                previousPath |-> dl.result.previous_filepath])
                   ELSE st.results
  IN [files |-> dl.files, backups |-> dl.backups, images |-> updated,
      results |-> results]

\* One iteration of the loop of syncPartImages, for uniqueUrls[i].
SyncOneImage(partId, imageUrl, i, st, downloadImages, remote, probeOk, getOk, now) ==
  RecordImage(partId, imageUrl, i, st,
              IF downloadImages
                THEN downloadImage(imageUrl, st.files, st.backups,
                                   remote[imageUrl], probeOk, getOk, now)
                ELSE [result |-> [ok |-> FALSE, filepath |-> NULL, size |-> 0,
                                  status |-> "", previous_filepath |-> NULL],
                      files |-> st.files, backups |-> st.backups])

RECURSIVE SyncLoop(_, _, _, _, _, _, _, _, _)
SyncLoop(partId, uniqueUrls, i, st, downloadImages, remote, probeOk, getOk, now) ==
  IF i > Len(uniqueUrls) THEN st
  ELSE SyncLoop(partId, uniqueUrls, i + 1,
                SyncOneImage(partId, uniqueUrls[i], i, st, downloadImages,
                             remote, probeOk, getOk, now),
                downloadImages, remote, probeOk, getOk, now)

\* syncPartImages(partId, imageUrls, downloadImages).
syncPartImages(partId, imageUrls, downloadImages, fs, bk, imgs, remote, probeOk, getOk, now) ==
  SyncLoop(partId, UniqueUrls(imageUrls, <<>>), 1,
           [files |-> fs, backups |-> bk, images |-> imgs, results |-> <<>>],
           downloadImages, remote, probeOk, getOk, now)

\* ------------------------------------------------------------ extraction
\* The extraction of scrapeParts from one table of the page.  A table is
\* its rows, each the cleaned texts of its cells, and its img elements in
\* document order, each with its src, the href of an enclosing link and
\* its alt text (NULL and "" when missing); URLs are absolute.

\* /^OSA$/i.test(t) and t.toUpperCase().startsWith('OSA'), over the labels
\* of the model.
IsOsa(t) == t \in {"OSA", "osa"}
StartsWithOsa(t) == t \in {"OSA", "osa", "OSANRO", "Osanro"}
\* label.includes('OSANRO'), label.includes('LISATIEDOT'), of the
\* upper-cased first cell.
IsOsanro(t) == t \in {"OSANRO", "Osanro"}
IsLisatiedot(t) == t = "LISATIEDOT"
\* /^\-+$/.test(t)
IsDashes(t) == t \in {"-", "--"}
\* match(/(\d+(?:[,\.]\d{1,2})?)\s*EUR/) and parseFloat, over the price
\* texts of the model: whether the text matches, and the amount.
HasEurAmount(t) == t \in {"45 EUR", "50EUR", "0 EUR"}
EurAmount(t) ==
  CASE t = "45 EUR" -> 45
    [] t = "50EUR" -> 50
    [] OTHER -> 0
\* imageAlt.match(/RS\d+/), "" for no match.
AltNumber(alt) == IF alt = "RS125 tank" THEN "RS125" ELSE ""

\* Whether the texts of a row hold an EUR amount, and the first of them.
RowHasPrice(ctexts) == \E c \in 1..Len(ctexts) : HasEurAmount(ctexts[c])
RECURSIVE RowPrice(_)
RowPrice(ctexts) ==
  IF ctexts = <<>> THEN 0
  ELSE IF HasEurAmount(Head(ctexts)) THEN EurAmount(Head(ctexts))
  ELSE RowPrice(Tail(ctexts))

\* texts.reverse().find(t => t && !/^\-+$/.test(t)) || ''
RECURSIVE LastNamed(_)
LastNamed(texts) ==
  IF texts = <<>> THEN ""
  ELSE IF texts[Len(texts)] # "" /\ ~IsDashes(texts[Len(texts)])
    THEN texts[Len(texts)]
  ELSE LastNamed(SubSeq(texts, 1, Len(texts) - 1))

\* The loop over the rows after the OSA row, from row j on, up to the next
\* OSA row or the end: part number, description, price and the row it
\* stopped at.
RECURSIVE ScanBlock(_, _, _)
ScanBlock(rows, j, b) ==
  IF j > Len(rows) THEN [b EXCEPT !.j = j]
  ELSE IF rows[j] = <<>> THEN ScanBlock(rows, j + 1, b)
  ELSE IF \E c \in 1..Len(rows[j]) : IsOsa(rows[j][c]) THEN [b EXCEPT !.j = j]
  ELSE ScanBlock(rows, j + 1,
         [b EXCEPT
            !.partNumber = IF b.partNumber = "" /\ IsOsanro(rows[j][1])
                                /\ Len(rows[j]) >= 2
                             THEN rows[j][2] ELSE b.partNumber,
            !.description = IF b.description = "" /\ IsLisatiedot(rows[j][1])
                                 /\ Len(rows[j]) >= 2
                              THEN rows[j][2] ELSE b.description,
            !.price = IF RowHasPrice(rows[j]) THEN RowPrice(rows[j])
                      ELSE b.price])

\* imageCandidates: for every img of the table the href of its enclosing
\* link, then its src, each resolved URL once.
RECURSIVE ImageCandidates(_)
ImageCandidates(imgs) ==
  IF imgs = <<>> THEN <<>>
  ELSE <<Head(imgs).href, Head(imgs).src>> \o ImageCandidates(Tail(imgs))

\* The record pushed for the block of the OSA row i, if it has a name and
\* a positive price.
BlockRecord(table, i, b) ==
  LET candidates == UniqueUrls(ImageCandidates(table.imgs), <<>>)
      imageAlt == IF table.imgs = <<>> THEN "" ELSE table.imgs[1].alt
  IN [name |-> LastNamed(table.rows[i]),
      partNumber |-> IF b.partNumber # "" THEN b.partNumber
                     ELSE AltNumber(imageAlt),
      description |-> b.description, price |-> b.price, currency |-> "EUR",
      imageUrl |-> IF candidates = <<>> THEN NULL ELSE candidates[1],
      imageUrls |-> candidates]

RECURSIVE ExtractRowsKeepsAll(_, _, _)
ExtractRowsKeepsAll(table, i, acc) ==
  IF i > Len(table.rows) THEN acc
  ELSE IF table.rows[i] = <<>> THEN ExtractRowsKeepsAll(table, i + 1, acc)
  ELSE IF \E c \in 1..Len(table.rows[i]) : StartsWithOsa(table.rows[i][c])
    THEN LET b == ScanBlock(table.rows, i + 1,
                            [j |-> i + 1, partNumber |-> "", description |-> "",
                             price |-> 0])
         IN ExtractRowsKeepsAll(table, b.j, Append(acc, BlockRecord(table, i, b)))
  ELSE ExtractRowsKeepsAll(table, i + 1, acc)

\* The loop over the rows of the table, from row i on.
RECURSIVE ExtractRows(_, _, _)
ExtractRows(table, i, acc) ==
  IF i > Len(table.rows) THEN acc
  ELSE IF table.rows[i] = <<>> THEN ExtractRows(table, i + 1, acc)
  ELSE IF \E c \in 1..Len(table.rows[i]) : StartsWithOsa(table.rows[i][c])
    THEN LET b == ScanBlock(table.rows, i + 1,
                            [j |-> i + 1, partNumber |-> "", description |-> "",
                             price |-> 0])
             rec == BlockRecord(table, i, b)
         IN ExtractRows(table, b.j,
                        IF rec.name # "" /\ rec.price > 0 THEN Append(acc, rec)
                        ELSE acc)
  ELSE ExtractRows(table, i + 1, acc)

RECURSIVE UniquePartsKeepsFirst(_, _)
UniquePartsKeepsFirst(recs, acc) ==
  IF recs = <<>> THEN acc
  ELSE LET p == Head(recs)
           key == IF p.partNumber # "" THEN p.partNumber ELSE p.name
           same == {k \in 1..Len(acc) :
                      (IF acc[k].partNumber # "" THEN acc[k].partNumber
                       ELSE acc[k].name) = key}
       IN UniquePartsKeepsFirst(Tail(recs),
                                IF same = {} THEN Append(acc, p) ELSE acc)

\* uniquePartsMap: the records by key partNumber || name, in the order of
\* the first occurrences, the image lists of equal keys merged.
RECURSIVE UniqueParts(_, _)
UniqueParts(recs, acc) ==
  IF recs = <<>> THEN acc
  ELSE LET p == Head(recs)
           key == IF p.partNumber # "" THEN p.partNumber ELSE p.name
           same == {k \in 1..Len(acc) :
                      (IF acc[k].partNumber # "" THEN acc[k].partNumber
                       ELSE acc[k].name) = key}
       IN UniqueParts(Tail(recs),
            IF same = {} THEN Append(acc, p)
            ELSE [k \in 1..Len(acc) |->
                    IF k \in same
                      THEN [acc[k] EXCEPT
                              !.imageUrls = UniqueUrls(acc[k].imageUrls \o p.imageUrls
                                                         \o <<p.imageUrl>>, <<>>),
                              !.imageUrl = IF acc[k].imageUrl = NULL THEN p.imageUrl
                                           ELSE acc[k].imageUrl]
                      ELSE acc[k]])

\* uniqueParts of a page that consists of the one table.
ExtractParts(table) == UniqueParts(ExtractRows(table, 1, <<>>), <<>>)

\* $('table').each(...): the array parts after the tables of the page.
RECURSIVE ExtractTables(_, _)
ExtractTables(tables, acc) ==
  IF tables = <<>> THEN acc
  ELSE ExtractTables(Tail(tables), ExtractRows(Head(tables), 1, acc))

\* ------------------------------------------------------------ the tables

\* SELECT * FROM parts WHERE motorcycle_id = ? AND part_number = ?  (with a
\* part number), ... AND name = ?  (without): the ids of the rows that
\* qualify; db.get returns one of them.
MatchingRows(parts, motorcycleId, part) ==
  {id \in DOMAIN parts :
     /\ parts[id].motorcycle_id = motorcycleId
     /\ IF part.partNumber # ""
          THEN parts[id].part_number = part.partNumber
          ELSE parts[id].name = part.name}

\* The row of INSERT INTO parts (...): last_seen, is_deleted and deleted_at
\* get the defaults of the schema.
NewPartRow(partId, motorcycleId, part, pageUrl, scrapeTimestamp) ==
  [id |-> partId, motorcycle_id |-> motorcycleId, name |-> part.name,
   part_number |-> IF part.partNumber = "" THEN NullText ELSE part.partNumber,
   description |-> part.description, price |-> part.price,
   currency |-> part.currency, image_url |-> part.imageUrl,
   image_path |-> NULL, url |-> pageUrl, scraped_at |-> scrapeTimestamp,
   last_seen |-> NullTime, is_deleted |-> 0, deleted_at |-> NullTime]

\* The constraints of CREATE TABLE parts: id PRIMARY KEY; name, part_number
\* and url NOT NULL.
PartsInsertAllowed(parts, row) ==
  /\ row.id \notin DOMAIN parts
  /\ row.name # NullText
  /\ row.part_number # NullText
  /\ row.url # NULL

StampRowKeepsPath(row, images, scrapeTimestamp) ==
  [row EXCEPT !.last_seen = scrapeTimestamp,
              !.is_deleted = 0,
              !.deleted_at = NullTime]

\* The final UPDATE parts SET image_path = COALESCE((SELECT pi.image_path
\* ...), image_path), last_seen = ?, is_deleted = 0, deleted_at = NULL.
StampRow(row, images, scrapeTimestamp) ==
  LET cands == {k \in 1..Len(images) :
                  /\ images[k].part_id = row.id
                  /\ images[k].image_url = row.image_url
                  /\ images[k].image_path # NULL}
      first == CHOOSE k \in cands : \A j \in cands :
                 \/ images[k].sort_order < images[j].sort_order
                 \/ images[k].sort_order = images[j].sort_order /\ k <= j
  IN [row EXCEPT !.image_path = IF cands = {} THEN row.image_path
                                ELSE images[first].image_path,
                 !.last_seen = scrapeTimestamp,
                 !.is_deleted = 0,
                 !.deleted_at = NullTime]

\* The field diffs of the existing-part branch.
FieldChanges(existing, part) ==
  (IF existing.price # part.price THEN {"price"} ELSE {})
  \cup (IF existing.name # part.name THEN {"name"} ELSE {})
  \cup (IF (IF existing.description = NullText THEN "" ELSE existing.description)
            # part.description THEN {"description"} ELSE {})
  \cup (IF existing.image_url # part.imageUrl THEN {"image"} ELSE {})

\* imageResults.some(img => img.status === 'downloaded_updated')
ImageContentChanged(results) ==
  \E k \in 1..Len(results) : results[k].status = "downloaded_updated"

HistoryImagePathStored(existing, results) == existing.image_path

\* The image path archived in history: the backup of the previous file when
\* the primary image was replaced, else the stored image_path.
HistoryImagePath(existing, results) ==
  LET hits == {k \in 1..Len(results) :
                 /\ results[k].status = "downloaded_updated"
                 /\ results[k].previousPath # NULL
                 /\ \/ existing.image_url # NULL /\ results[k].url = existing.image_url
                    \/ existing.image_path # NULL /\ results[k].path = existing.image_path}
      first == CHOOSE k \in hits : \A j \in hits : k <= j
  IN IF hits = {} THEN existing.image_path ELSE results[first].previousPath

HistoryEventAlwaysUpdated(existing) == "updated"

\* statusChanged ? 'restored' : 'updated'
HistoryEvent(existing) ==
  IF existing.is_deleted # 0 THEN "restored" ELSE "updated"

InsertHistoryKeyedByPart(history, row) ==
  Append(SelectSeq(history, LAMBDA h : h.part_id # row.part_id), row)

\* INSERT INTO parts_history: the id is an md5 over a fresh random UUID, so
\* the row is always a new one, after the rows already there.
InsertHistory(history, row) == Append(history, row)

\* The row of INSERT INTO parts_history of the existing-part branch.
HistoryRow(existing, imagePath, event, scrapeTimestamp) ==
  [part_id |-> existing.id, motorcycle_id |-> existing.motorcycle_id,
   name |-> existing.name, part_number |-> existing.part_number,
   description |-> existing.description, price |-> existing.price,
   currency |-> existing.currency, image_url |-> existing.image_url,
   image_path |-> imagePath, url |-> existing.url, history_event |-> event,
   is_deleted |-> existing.is_deleted, deleted_at |-> existing.deleted_at,
   recorded_at |-> scrapeTimestamp]

\* UPDATE parts SET name, description, price, currency, image_url,
\* image_path, url, scraped_at: image_url is part.imageUrl || existing.image_url.
UpdatedRow(existing, part, pageUrl, scrapeTimestamp) ==
  [existing EXCEPT !.name = part.name,
                   !.description = part.description,
                   !.price = part.price,
                   !.currency = part.currency,
                   !.image_url = IF part.imageUrl # NULL THEN part.imageUrl
                                 ELSE existing.image_url,
                   !.image_path = existing.image_path,
                   !.url = pageUrl,
                   !.scraped_at = scrapeTimestamp]

\* The new-part branch of the loop of scrapeParts on the tables d: the
\* INSERT of row, and unless it throws (the error is swallowed), the image
\* sync (sync: its outcome) and the final UPDATE.
InsertNew(d, row, sync, ts) ==
  IF ~PartsInsertAllowed(d.parts, row) THEN d
  ELSE [d EXCEPT !.parts = (row.id :> StampRow(row, sync.images, ts)) @@ d.parts,
                 !.part_images = sync.images,
                 !.files = sync.files,
                 !.backups = sync.backups]

NewPartBranch(d, part, partId, motorcycleId, pageUrl, ts, downloadImages, remote, probeOk, getOk) ==
  InsertNew(d, NewPartRow(partId, motorcycleId, part, pageUrl, ts),
            syncPartImages(partId, part.imageUrls, downloadImages, d.files,
                           d.backups, d.part_images, remote, probeOk, getOk, ts),
            ts)

UpdateExistingAlways(d, existing, part, pageUrl, ts, sync) ==
  [d EXCEPT !.parts = [d.parts EXCEPT ![existing.id] =
                         StampRow(UpdatedRow(existing, part, pageUrl, ts),
                                  sync.images, ts)],
            !.part_images = sync.images,
            !.files = sync.files,
            !.backups = sync.backups]

\* The existing-part branch after the image sync (sync: its outcome): the
\* diffs, the history row and the UPDATE when something changed, and the
\* final UPDATE in every case.
UpdateExisting(d, existing, part, pageUrl, ts, sync) ==
  LET changes == FieldChanges(existing, part)
      imageContentChanged == ImageContentChanged(sync.results)
      statusChanged == existing.is_deleted # 0
      changed == changes # {} \/ imageContentChanged \/ statusChanged
      hist == HistoryRow(existing, HistoryImagePath(existing, sync.results),
                         HistoryEvent(existing), ts)
      row == IF changed THEN UpdatedRow(existing, part, pageUrl, ts) ELSE existing
  IN [d EXCEPT !.parts = [d.parts EXCEPT ![existing.id] = StampRow(row, sync.images, ts)],
               !.parts_history = IF changed THEN InsertHistory(d.parts_history, hist)
                                 ELSE d.parts_history,
               !.part_images = sync.images,
               !.files = sync.files,
               !.backups = sync.backups]

ExistingPartBranch(d, existing, part, pageUrl, ts, downloadImages, remote, probeOk, getOk) ==
  UpdateExisting(d, existing, part, pageUrl, ts,
                 syncPartImages(existing.id, part.imageUrls, downloadImages, d.files,
                                d.backups, d.part_images, remote, probeOk, getOk, ts))

DeletedRowsWithTombstones(parts, motorcycleId, seenPartIds) ==
  {id \in DOMAIN parts :
     /\ parts[id].motorcycle_id = motorcycleId
     /\ \A k \in 1..Len(seenPartIds) : seenPartIds[k] # id}

DeletedRowsAnyVehicle(parts, motorcycleId, seenPartIds) ==
  {id \in DOMAIN parts :
     /\ \A k \in 1..Len(seenPartIds) : seenPartIds[k] # id
     /\ parts[id].is_deleted = 0}

\* markDeletedParts: the rows it selects (same vehicle, not seen, not yet
\* deleted).
DeletedRows(parts, motorcycleId, seenPartIds) ==
  {id \in DOMAIN parts :
     /\ parts[id].motorcycle_id = motorcycleId
     /\ \A k \in 1..Len(seenPartIds) : seenPartIds[k] # id
     /\ parts[id].is_deleted = 0}

\* ORDER BY name ASC: the collation order of the part names of the model.
NameOrder == <<"Seat", "Tank">>
NameRank(name) == CHOOSE k \in 1..Len(NameOrder) : NameOrder[k] = name

\* The orders in which ORDER BY name ASC, id ASC can return the rows: ids
\* are md5 digests, so rows of equal name come in either order.
RowOrders(parts, ids) ==
  {seq \in [1..Cardinality(ids) -> ids] :
     /\ \A i, j \in 1..Cardinality(ids) : i # j => seq[i] # seq[j]
     /\ \A i, j \in 1..Cardinality(ids) :
          i < j => NameRank(parts[seq[i]].name) <= NameRank(parts[seq[j]].name)}

\* The row of INSERT INTO parts_history of markDeletedParts.
DeletedHistoryRow(row, motorcycleId, scrapeTimestamp) ==
  [part_id |-> row.id, motorcycle_id |-> motorcycleId, name |-> row.name,
   part_number |-> row.part_number,
   description |-> IF row.description = NullText THEN "" ELSE row.description,
   price |-> row.price,
   currency |-> IF row.currency = NullText THEN EUR ELSE row.currency,
   image_url |-> row.image_url, image_path |-> row.image_path,
   url |-> row.url, history_event |-> "deleted",
   is_deleted |-> row.is_deleted, deleted_at |-> row.deleted_at,
   recorded_at |-> scrapeTimestamp]

FlipDeletedNoTimestamp(parts, motorcycleId, seenPartIds, scrapeTimestamp) ==
  [id \in DOMAIN parts |->
     IF /\ parts[id].motorcycle_id = motorcycleId
        /\ \A k \in 1..Len(seenPartIds) : seenPartIds[k] # id
        /\ parts[id].is_deleted = 0
       THEN [parts[id] EXCEPT !.is_deleted = 1]
       ELSE parts[id]]

FlipDeletedRemovesRows(parts, motorcycleId, seenPartIds, scrapeTimestamp) ==
  [id \in {i \in DOMAIN parts :
             ~(/\ parts[i].motorcycle_id = motorcycleId
               /\ \A k \in 1..Len(seenPartIds) : seenPartIds[k] # i
               /\ parts[i].is_deleted = 0)} |-> parts[id]]

\* UPDATE parts SET is_deleted = 1, deleted_at = ? WHERE motorcycle_id = ?
\* AND id NOT IN (seen) AND is_deleted = 0.
FlipDeleted(parts, motorcycleId, seenPartIds, scrapeTimestamp) ==
  [id \in DOMAIN parts |->
     IF id \in DeletedRows(parts, motorcycleId, seenPartIds)
       THEN [parts[id] EXCEPT !.is_deleted = 1, !.deleted_at = scrapeTimestamp]
       ELSE parts[id]]

\* ------------------------------------------------------------ the inputs

\* Remote images and the bytes the site serves for them.
ImageA == <<"kuvat", "images", "a.jpg">>
ImageB == <<"kuvat", "images", "rs", "b.jpg">>
ImageUrls == {ImageA, ImageB}
Bytes1 == [size |-> 10, bytes |-> "v1"]
Bytes2 == [size |-> 20, bytes |-> "v2"]
\* Other bytes of the length of Bytes1.
Bytes3 == [size |-> 10, bytes |-> "v3"]
Contents == {Bytes1, Bytes2, Bytes3}
\* A URL whose path has no segment that can be kept.
UrlNoPath == <<"..", ".">>
\* URLs whose decoded path climbs out of the marker directory, has the
\* marker in upper case and an empty segment, has no marker, ends with the
\* marker, and has nothing after the marker.
UrlTraversal == <<"kuvat", "images", "..", "..", "a.jpg">>
UrlUpperMarker == <<"kuvat", "IMAGES", "rs", "", "b.jpg">>
UrlNoMarker == <<"", "kuvat", ".", "c.jpg">>
UrlMarkerLast == <<"kuvat", "images">>
UrlMarkerOnly == <<"images", "">>
PathUrls == ImageUrls \cup {UrlNoPath, UrlTraversal, UrlUpperMarker, UrlNoMarker,
                            UrlMarkerLast, UrlMarkerOnly}

\* Extracted records (uniqueParts entries): non-empty name, positive price.
Rec(partNumber, name, description, price, imageUrls) ==
  [name |-> name, partNumber |-> partNumber, description |-> description,
   price |-> price, currency |-> EUR,
   imageUrl |-> IF imageUrls = <<>> THEN NULL ELSE imageUrls[1],
   imageUrls |-> imageUrls]

Tank        == Rec("12345", "Tank", "", 45, <<ImageA>>)
TankPrice   == Rec("12345", "Tank", "", 50, <<ImageA>>)
TankRenamed == Rec("12345", "Seat", "used", 45, <<ImageA>>)
TankNoImage == Rec("12345", "Tank", "", 45, <<>>)
TankImages  == Rec("12345", "Tank", "", 45, <<ImageB, ImageA>>)
TankNoNumber == Rec("", "Tank", "", 45, <<ImageA>>)
TankNoNumberPrice == Rec("", "Tank", "", 50, <<ImageA>>)
Seat        == Rec("67890", "Seat", "", 45, <<ImageA>>)

\* The table of a page with one block: the rows OSA / Tank, OSANRO / 12345
\* and HINTA / 45 EUR, and one img, without or with an enclosing link.
ExampleRows == << <<"OSA", "Tank">>, <<"OSANRO", "12345">>, <<"HINTA", "45 EUR">> >>
ImgPlain == [src |-> ImageA, href |-> NULL, alt |-> ""]
ImgLinked == [src |-> ImageA, href |-> ImageB, alt |-> ""]
ExampleTable(img) == [rows |-> ExampleRows, imgs |-> <<img>>]

\* Tables of a model page: the example; the same part at another price and
\* without img; a part without a number; a block without a price followed
\* by a block with one; a block whose price is 0 EUR; a block whose OSA
\* row names nothing but dashes; a part with the image of another URL.
TableTankLinked == ExampleTable(ImgLinked)
TableTankPlain == ExampleTable(ImgPlain)
TableTankNoImg ==
  [rows |-> << <<"OSA", "Tank">>, <<"OSANRO", "12345">>, <<"HINTA", "50EUR">> >>,
   imgs |-> <<>>]
TableSeatNoNumber ==
  [rows |-> << <<"OSA", "Seat">>, <<"LISATIEDOT", "used">>, <<"HINTA", "45 EUR">> >>,
   imgs |-> <<ImgPlain>>]
TableNoPriceThenTank ==
  [rows |-> << <<"OSA", "Seat">>, <<"OSANRO", "67890">>,
               <<"OSA", "Tank">>, <<"OSANRO", "12345">>, <<"HINTA", "45 EUR">> >>,
   imgs |-> <<ImgPlain>>]
TableZeroPrice ==
  [rows |-> << <<"OSA", "Seat">>, <<"OSANRO", "67890">>, <<"HINTA", "45 EUR">>,
               <<"", "0 EUR">> >>,
   imgs |-> <<ImgPlain>>]
TableDashes ==
  [rows |-> << <<"OSA", "--">>, <<"HINTA", "45 EUR">> >>, imgs |-> <<>>]
TableSeatOtherImage ==
  [rows |-> << <<"OSA", "Seat">>, <<"OSANRO", "67890">>, <<"HINTA", "45 EUR">> >>,
   imgs |-> <<[src |-> ImageB, href |-> NULL, alt |-> ""]>>]
PageTables == {TableTankLinked, TableTankPlain, TableTankNoImg, TableSeatNoNumber,
               TableNoPriceThenTank, TableZeroPrice, TableDashes,
               TableSeatOtherImage}
PagesOfTables == UNION {[1..n -> PageTables] : n \in 0..MaxTables}

\* Model pages of the listing: link text (its words), href, category.
LinkAprilia == [text |-> <<"aprilia", "rs", "125">>,
                href |-> [base |-> "apriliars125.htm", hash |-> ""],
                category |-> "motorcycles"]
LinkKtm == [text |-> <<"ktm", "exc">>,
            href |-> [base |-> "ktmexc.htm", hash |-> "osat"],
            category |-> "motorcycles"]
\* The page of LinkKtm when the listing labels it with the text of
\* LinkAprilia: the same URL under another brand and model, and the same
\* brand and model under another URL.
LinkRelabelled == [text |-> <<"aprilia", "rs", "125">>,
                   href |-> [base |-> "ktmexc.htm", hash |-> ""],
                   category |-> "motorcycles"]
Links == {LinkAprilia, LinkKtm, LinkRelabelled}

\* What a fetch of a model page can yield: the deduplicated records of the
\* page, in page order (keys partNumber || name pairwise distinct).
PagesOf(link) ==
  IF link = LinkAprilia
    THEN {<<>>, <<Tank>>, <<TankPrice>>, <<TankRenamed>>, <<TankNoImage>>,
          <<TankImages>>, <<TankNoNumber>>, <<Tank, TankNoNumberPrice>>,
          <<Tank, Seat>>}
    ELSE {<<Tank>>}

\* Link texts of the listing and filter expressions of the request.
TextApriliaParts == <<"A", "p", "r", "i", "l", "i", "a", " ", "R", "S", " ", "1", "2", "5", " ", "p", "a", "r", "t", "s">>
TextCagivaMito == <<"C", "a", "g", "i", "v", "a", " ", "M", "i", "t", "o">>
TextHondaCbr == <<"H", "o", "n", "d", "a", " ", "C", "B", "R">>
TextApriliaDash == <<"A", "P", "R", "I", "L", "I", "A", " ", " ", "R", "S", "-", "1", "2", "5">>
TextCagiva == <<"C", "a", "g", "i", "v", "a">>
LinkTexts == {TextApriliaParts, TextCagivaMito, TextHondaCbr, TextApriliaDash,
              TextCagiva}
FilterAprilia125 == <<"a", "p", "r", "i", "l", "i", "a", " ", "1", "2", "5">>
FilterCagiva == <<"c", "a", "g", "i", "v", "a">>
FilterApriliaDash == <<"A", "p", "r", "i", "l", "i", "a", "-", "1", "2", "5", ",", " ">>
FilterCbr == <<" ", "C", "B", "R">>
FilterRs125 == <<"r", "s", "1", "2", "5">>
FilterEmpty == <<>>
FilterTexts == {FilterAprilia125, FilterCagiva, FilterApriliaDash, FilterCbr,
                FilterRs125, FilterEmpty}
\* The arrays of at most MaxFilters filter expressions.
FilterLists ==
  UNION {[1..n -> FilterTexts] : n \in 0..MaxFilters}

\* ------------------------------------------------------------- the state

VARIABLES
  motorcycles,    \* table motorcycles: id -> row
  parts,          \* table parts: id -> row
  parts_history,  \* table parts_history: the rows in insertion order
  part_images,    \* table part_images: the rows in insertion (id) order
  files,          \* the images directory: relative path -> bytes
  backups,        \* the _history directory: backup path -> bytes
  remote,         \* the site: image URL -> the bytes it serves
  remoteChanges,  \* how often the site has replaced an image
  options,        \* the options of the crawl runs (downloadImages)
  pc,             \* "idle", or "parts" inside scrapeMotorcyclePage
  run,            \* the locals of the running (or last) scrapeMotorcyclePage
  log,            \* the inputs of the passes so far, one entry per pass
  fetchFailures,  \* how many model-page fetches have failed in a row
  dl,             \* the last call of downloadImage: arguments and result
  scrapeJob,      \* the variable scrapeJob of the routes
  aborted,        \* AbortController -> whether its signal is aborted
  crawl,          \* AbortController -> where the run started with it is
  filterCall,     \* the last call of matchesAllowedFilter: arguments, result
  wr,             \* the db calls of a pass, one by one: where the pass is
  sync,           \* the locals of the running (or last) syncPartImages
  extraction      \* the last extraction of scrapeParts: the page, the records

vars == <<motorcycles, parts, parts_history, part_images, files, backups,
          remote, remoteChanges, options, pc, run, log, fetchFailures,
          dl, scrapeJob, aborted, crawl, filterCall, wr, sync,
          extraction>>

\* The variables of the routes and of the control flow of the runs.
jobVars == <<scrapeJob, aborted, crawl>>

\* The variables of the crawl passes other than the image files.
passVars == <<motorcycles, parts, parts_history, part_images, remoteChanges,
              options, pc, run, log, fetchFailures>>

\* The variables of the link filter.
filterVars == <<filterCall>>

\* filterCall before any call of matchesAllowedFilter.
NoFilterCall ==
  [called |-> FALSE, allowedBrands |-> <<>>, linkText |-> <<>>,
   allowed |-> TRUE]

\* The variables of the pass taken db call by db call.
writeVars == <<wr>>

\* wr before any pass.
NoWrites ==
  [pc |-> "idle", ts |-> 0, queue |-> <<>>, seenPartIds |-> <<>>,
   existing |-> NULL, steps |-> <<>>, rows |-> <<>>, start |-> <<>>]

\* The variables of the extraction of scrapeParts.
extractVars == <<extraction>>

\* extraction before any page is extracted.
NoExtraction ==
  [called |-> FALSE, tables |-> <<>>, parts |-> <<>>, uniqueParts |-> <<>>]

\* The variables of syncPartImages taken image by image.
syncVars == <<sync>>

\* sync before any call of syncPartImages.
NoSync ==
  [pc |-> "idle", calls |-> 0, now |-> 0, partId |-> NULL, uniqueUrls |-> <<>>,
   i |-> 0, downloadImages |-> TRUE, results |-> <<>>,
   last |-> [url |-> NULL, probeOk |-> FALSE, getOk |-> FALSE]]

\* dl before any call of downloadImage.
NoDownload ==
  [now |-> 0, url |-> NULL, probeOk |-> FALSE, getOk |-> FALSE,
   result |-> [ok |-> FALSE, filepath |-> NULL, size |-> 0, status |-> "",
               previous_filepath |-> NULL]]

\* let scrapeJob = { running: false, controller: null, startedAt: null };
\* a controller is the number of the run it was created for, null is 0.
NoJob == [running |-> FALSE, controller |-> 0]
Controllers == 1..MaxRuns

\* A run that has not been started.
NotStarted ==
  [pc |-> "none", mode |-> "list", links |-> 0, parts |-> 0, images |-> 0,
   page |-> 0, outcome |-> "", failed |-> ""]

NoRun == [scrapeTimestamp |-> NullTime, link |-> LinkAprilia,
          motorcycleId |-> NULL, pageUrl |-> NULL, downloadImages |-> TRUE,
          page |-> <<>>, queue |-> <<>>, seenPartIds |-> <<>>,
          matched |-> <<>>, startParts |-> <<>>]

Init ==
  /\ motorcycles = <<>>
  /\ parts = <<>>
  /\ parts_history = <<>>
  /\ part_images = <<>>
  /\ files = <<>>
  /\ backups = <<>>
  /\ remote = [u \in ImageUrls |-> Bytes1]
  /\ remoteChanges = 0
  /\ options \in [downloadImages : BOOLEAN]
  /\ pc = "idle"
  /\ run = NoRun
  /\ log = <<>>
  /\ fetchFailures = 0
  /\ dl = NoDownload
  /\ scrapeJob = NoJob
  /\ aborted = [c \in Controllers |-> FALSE]
  /\ crawl = [c \in Controllers |-> NotStarted]
  /\ filterCall = NoFilterCall
  /\ wr = NoWrites
  /\ sync = NoSync
  /\ extraction = NoExtraction

\* The tables and files as one record.
Tables ==
  [parts |-> parts, parts_history |-> parts_history,
   part_images |-> part_images, files |-> files, backups |-> backups]

CorrelateVehicleIdFirst(table, byUrl, link, listingUrl, scrapeTimestamp) ==
  LET bm == extractBrandModel(link.text)
      generated == MotorcycleIdOf(link.text)
      id == IF generated \in DOMAIN table THEN generated
            ELSE IF byUrl # NULL THEN byUrl ELSE generated
  IN [motorcycleId |-> id,
      motorcycles |->
        (id :> [id |-> id, brand |-> bm[1], model |-> bm[2],
                category |-> link.category, url |-> listingUrl,
                last_updated |-> scrapeTimestamp]) @@ table]

\* The vehicle correlation of scrapeMotorcyclePage: the row matched by URL
\* (byUrl, NULL if none), else the row with the generated id, else a new
\* row.  Yields the motorcycle id and the table afterwards.
CorrelateVehicle(table, byUrl, link, listingUrl, scrapeTimestamp) ==
  LET bm == extractBrandModel(link.text)
      generated == MotorcycleIdOf(link.text)
  IN IF byUrl # NULL
       THEN [motorcycleId |-> byUrl,
             motorcycles |->
               IF table[byUrl].brand # bm[1] \/ table[byUrl].model # bm[2]
                 THEN [table EXCEPT ![byUrl] =
                         [@ EXCEPT !.brand = bm[1], !.model = bm[2],
                                   !.category = link.category,
                                   !.last_updated = scrapeTimestamp]]
                 ELSE table]
     ELSE IF generated \in DOMAIN table
       THEN [motorcycleId |-> generated,
             motorcycles |->
               [table EXCEPT ![generated] =
                  [@ EXCEPT !.brand = bm[1], !.model = bm[2],
                            !.category = link.category, !.url = listingUrl,
                            !.last_updated = scrapeTimestamp]]]
     ELSE [motorcycleId |-> generated,
           motorcycles |->
             (generated :> [id |-> generated, brand |-> bm[1], model |-> bm[2],
                            category |-> link.category, url |-> listingUrl,
                            last_updated |-> scrapeTimestamp]) @@ table]

\* scrapeMotorcyclePage up to the call of scrapeParts: the page is fetched
\* (page: its deduplicated records), the vehicle is correlated.
ScrapeMotorcyclePage ==
  /\ pc = "idle"
  /\ Len(log) < MaxPass
  /\ \E link \in Links :
     \E page \in PagesOf(link) :
       LET scrapeTimestamp == Len(log) + 1
           downloadImages == options.downloadImages
           listingUrl == normalizeModelUrl(link.href)
           urlRows == {id \in DOMAIN motorcycles : motorcycles[id].url = listingUrl}
       IN \E byUrl \in (IF urlRows = {} THEN {NULL} ELSE urlRows) :
            LET v == CorrelateVehicle(motorcycles, byUrl, link, listingUrl,
                                      scrapeTimestamp)
            IN /\ motorcycles' = v.motorcycles
               /\ run' = [scrapeTimestamp |-> scrapeTimestamp, link |-> link,
                          motorcycleId |-> v.motorcycleId, pageUrl |-> listingUrl,
                          downloadImages |-> downloadImages, page |-> page,
                          queue |-> page, seenPartIds |-> <<>>, matched |-> <<>>,
                          startParts |-> parts]
               /\ log' = Append(log, [link |-> link, page |-> page,
                                      remote |-> remote])
               /\ pc' = "parts"
  /\ fetchFailures' = 0
  /\ UNCHANGED <<parts, parts_history, part_images, files, backups, remote,
                 remoteChanges, options, dl, jobVars, filterVars, writeVars, syncVars, extractVars>>

OnFetchErrorEmptyPage(d, motorcycleIds, scrapeTimestamp) ==
  [d EXCEPT !.parts =
     [id \in DOMAIN d.parts |->
        IF d.parts[id].motorcycle_id \in motorcycleIds /\ d.parts[id].is_deleted = 0
          THEN [d.parts[id] EXCEPT !.is_deleted = 1, !.deleted_at = scrapeTimestamp]
          ELSE d.parts[id]]]

\* catch (error) of scrapeMotorcyclePage when axios.get has thrown: the
\* error is logged, none of the statements after the fetch has run; d are
\* the tables, motorcycleIds the vehicles the page could be matched to.
OnFetchError(d, motorcycleIds, scrapeTimestamp) == d

\* The tables and files d1 written back, everything but the failure count
\* as it was.
FetchFailureWritten(d1) ==
  /\ parts' = d1.parts
  /\ parts_history' = d1.parts_history
  /\ part_images' = d1.part_images
  /\ files' = d1.files
  /\ backups' = d1.backups
  /\ fetchFailures' = fetchFailures + 1
  /\ UNCHANGED <<motorcycles, remote, remoteChanges, options, pc, run, log, dl,
                 jobVars, filterVars, writeVars, syncVars, extractVars>>

\* scrapeMotorcyclePage when the fetch of the model page fails (timeout,
\* DNS, connection, non-2xx): axios.get throws, the catch logs it and the
\* call returns.
ScrapeMotorcyclePageFailed ==
  /\ pc = "idle"
  /\ fetchFailures < MaxFetchFailures
  /\ \E link \in Links :
       FetchFailureWritten(
         OnFetchError(Tables,
                      {id \in DOMAIN motorcycles :
                         \/ motorcycles[id].url = normalizeModelUrl(link.href)
                         \/ id = MotorcycleIdOf(link.text)},
                      Len(log) + 1))

\* The tables and files after an iteration of the loop of scrapeParts, and
\* its locals: the id pushed to seenPartIds, the row that was matched.
Written(d1, partId, existing) ==
  /\ parts' = d1.parts
  /\ parts_history' = d1.parts_history
  /\ part_images' = d1.part_images
  /\ files' = d1.files
  /\ backups' = d1.backups
  /\ run' = [run EXCEPT !.queue = Tail(run.queue),
                        !.seenPartIds = Append(run.seenPartIds, partId),
                        !.matched = Append(run.matched, existing)]

\* One iteration of the loop `for (const part of uniqueParts)` of
\* scrapeParts: id, lookup, and the new-part or the existing-part branch.
ScrapeParts ==
  /\ pc = "parts"
  /\ run.queue # <<>>
  /\ \E probeOk \in BOOLEAN :
     \E existing \in (IF MatchingRows(parts, run.motorcycleId, Head(run.queue)) = {}
                        THEN {NULL}
                        ELSE MatchingRows(parts, run.motorcycleId, Head(run.queue))) :
       Written(IF existing = NULL
                 THEN NewPartBranch(Tables, Head(run.queue),
                                    PartIdOf(run.motorcycleId, Head(run.queue)),
                                    run.motorcycleId, run.pageUrl, run.scrapeTimestamp,
                                    run.downloadImages, remote, probeOk, TRUE)
                 ELSE ExistingPartBranch(Tables, parts[existing], Head(run.queue),
                                    run.pageUrl, run.scrapeTimestamp,
                                    run.downloadImages, remote, probeOk, TRUE),
               PartIdOf(run.motorcycleId, Head(run.queue)), existing)
  /\ UNCHANGED <<motorcycles, remote, remoteChanges, options, pc, log,
                 fetchFailures, dl, jobVars, filterVars, writeVars, syncVars, extractVars>>

\* The loop `for (const row of deletedRows)` of markDeletedParts: one
\* history row per selected row, in the order of the SELECT.
RECURSIVE ArchiveDeleted(_, _, _, _, _)
ArchiveDeleted(history, table, order, motorcycleId, scrapeTimestamp) ==
  IF order = <<>> THEN history
  ELSE ArchiveDeleted(
         InsertHistory(history, DeletedHistoryRow(table[Head(order)], motorcycleId,
                                                  scrapeTimestamp)),
         table, Tail(order), motorcycleId, scrapeTimestamp)

\* markDeletedParts, called when scrapeParts has returned: one history row
\* per selected row, then the flip; scrapeMotorcyclePage returns.
MarkDeletedParts ==
  /\ pc = "parts"
  /\ run.queue = <<>>
  /\ LET ids == DeletedRows(parts, run.motorcycleId, run.seenPartIds)
     IN \E order \in RowOrders(parts, ids) :
          /\ parts_history' = ArchiveDeleted(parts_history, parts, order,
                                             run.motorcycleId, run.scrapeTimestamp)
          /\ parts' = FlipDeleted(parts, run.motorcycleId, run.seenPartIds,
                                  run.scrapeTimestamp)
  /\ pc' = "idle"
  /\ UNCHANGED <<motorcycles, part_images, files, backups, remote,
                 remoteChanges, options, run, log, fetchFailures, dl,
                 jobVars, filterVars, writeVars, syncVars, extractVars>>

\* Between passes the site replaces the bytes of an image.
RemoteChange ==
  /\ pc = "idle"
  /\ remoteChanges < MaxRemoteChanges
  /\ remote' = [remote EXCEPT ![ImageA] = IF @ = Bytes1 THEN Bytes2 ELSE Bytes1]
  /\ remoteChanges' = remoteChanges + 1
  /\ UNCHANGED <<motorcycles, parts, parts_history, part_images, files, backups,
                 options, pc, run, log, fetchFailures, dl, jobVars, filterVars, writeVars, syncVars, extractVars>>

Next ==
  \/ ScrapeMotorcyclePage
  \/ ScrapeMotorcyclePageFailed
  \/ ScrapeParts
  \/ MarkDeletedParts
  \/ RemoteChange

Spec == Init /\ [][Next]_vars

\* ------------------------------------------ downloadImage, call by call

\* The images directory, the site and dl after a call of downloadImage
\* with outcome out; nothing else changes.
Downloaded(imageUrl, probeOk, getOk, out) ==
  /\ files' = out.files
  /\ backups' = out.backups
  /\ dl' = [now |-> dl.now + 1, url |-> imageUrl, probeOk |-> probeOk,
            getOk |-> getOk, result |-> out.result]
  /\ UNCHANGED <<remote, passVars, jobVars, filterVars, writeVars, syncVars, extractVars>>

\* What a GET of the URL returns.
Served(imageUrl) ==
  IF imageUrl \in DOMAIN remote THEN remote[imageUrl] ELSE Bytes1

\* One call downloadImage(imageUrl); Date.now() is the number of the call.
DownloadImage ==
  /\ dl.now < MaxDownloads
  /\ \E imageUrl \in ImageUrls \cup {UrlNoPath} :
     \E probeOk \in BOOLEAN :
     \E getOk \in BOOLEAN :
       Downloaded(imageUrl, probeOk, getOk,
                  downloadImage(imageUrl, files, backups, Served(imageUrl),
                                probeOk, getOk, dl.now + 1))

\* The site replaces the bytes of an image.
RemoteReplace ==
  /\ \E imageUrl \in ImageUrls :
     \E content \in Contents \ {remote[imageUrl]} :
       remote' = [remote EXCEPT ![imageUrl] = content]
  /\ UNCHANGED <<files, backups, dl, passVars, jobVars, filterVars, writeVars, syncVars, extractVars>>

DownloadNext == DownloadImage \/ RemoteReplace

DownloadSpec == Init /\ [][DownloadNext]_vars

\* ------------------------------------- downloadImage, for any URL of a page

\* One call downloadImage(imageUrl) with a URL as a page can hold it.
DownloadAnyUrl ==
  /\ dl.now < MaxDownloads
  /\ \E imageUrl \in PathUrls :
     \E probeOk \in BOOLEAN :
     \E getOk \in BOOLEAN :
       Downloaded(imageUrl, probeOk, getOk,
                  downloadImage(imageUrl, files, backups, Served(imageUrl),
                                probeOk, getOk, dl.now + 1))

PathNext == DownloadAnyUrl \/ RemoteChange

PathSpec == Init /\ [][PathNext]_vars

\* ------------------------------------------------ the routes and the runs
\* The control flow of POST /scrape and of the runs it starts, from await
\* to await.  crawl[c].pc says what the run of controller c awaits:
\*   "categoryFetch"  axios.get(category.url, {signal})
\*   "pageFetch"      axios.get(listingUrl, {signal})
\*   "vehicle"        the db calls of the vehicle correlation
\*   "parts"          the db.get that looks up the next part
\*   "probe"          axios.head(imageUrl) of getRemoteImageSize
\*   "get"            axios.get(imageUrl) of downloadImage
\*   "write"          the db calls that finish the part
\*   "reconcile"      the db calls of markDeletedParts
\*   "delay"          the timer of waitOrAbort(500, signal)
\* links, parts and images count what is left of the listing, of the page
\* and of the part, the current one included; page is the index i of the
\* loop over the links (0 outside it); failed names the db call
\* that threw in the last step; outcome says how the run ended.  What the
\* db calls write is the subject of Spec and is left out here.

\* The run has returned: its promise settles.
Ended(r, outcome) ==
  [r EXCEPT !.pc = "done", !.outcome = outcome, !.links = 0, !.parts = 0,
            !.images = 0, !.page = 0]

AfterPageReconciles(r, isAborted, failed) ==
  IF failed = "lookup" THEN [r EXCEPT !.pc = "reconcile", !.failed = failed]
  ELSE IF r.mode = "single" THEN [Ended(r, "completed") EXCEPT !.failed = failed]
  ELSE IF isAborted THEN [Ended(r, "aborted") EXCEPT !.failed = failed]
  ELSE [r EXCEPT !.pc = "delay", !.parts = 0, !.images = 0, !.failed = failed]

AfterPageNoDelay(r, isAborted, failed) ==
  IF r.mode = "single" THEN [Ended(r, "completed") EXCEPT !.failed = failed]
  ELSE IF isAborted THEN [Ended(r, "aborted") EXCEPT !.failed = failed]
  ELSE IF r.links > 1
    THEN [r EXCEPT !.pc = "pageFetch", !.links = r.links - 1,
                   !.page = r.page + 1, !.parts = 0, !.images = 0,
                   !.failed = failed]
  ELSE [Ended(r, "completed") EXCEPT !.failed = failed]

\* scrapeMotorcyclePage has returned (it catches every error).  Called by
\* the route, the run is over; in scrapeCategoryList waitOrAbort follows,
\* which rejects at once if the signal is aborted, and the catch returns.
AfterPage(r, isAborted, failed) ==
  IF r.mode = "single" THEN [Ended(r, "completed") EXCEPT !.failed = failed]
  ELSE IF isAborted THEN [Ended(r, "aborted") EXCEPT !.failed = failed]
  ELSE [r EXCEPT !.pc = "delay", !.parts = 0, !.images = 0, !.failed = failed]

\* The iteration of the loop of scrapeParts is over, by its last statement
\* or by its catch: the next part, or markDeletedParts after the last.
NextPart(r, failed) ==
  [r EXCEPT !.pc = IF r.parts > 1 THEN "parts" ELSE "reconcile",
            !.parts = r.parts - 1, !.images = 0, !.failed = failed]

\* downloadImage has returned and syncPartImages has upserted the
\* part_images row (upsertOk: the db calls did not throw): the next image,
\* or the db calls that finish the part.
ImageDone(r, upsertOk) ==
  IF ~upsertOk THEN NextPart(r, "write")
  ELSE IF r.images > 1
    THEN [r EXCEPT !.pc = "probe", !.images = r.images - 1, !.failed = ""]
  ELSE [r EXCEPT !.pc = "write", !.images = 0, !.failed = ""]

\* controller.abort(): what the abort event does to the run.  The fetches
\* of pages and the delay listen to the signal and reject; the category
\* fetch rejects with the error of axios, whose message is not 'Scrape
\* aborted'.  The db calls and the image requests do not get the signal.
OnAbort(r) ==
  IF r.pc = "categoryFetch" THEN Ended(r, "failed")
  ELSE IF r.pc = "pageFetch" THEN AfterPage(r, TRUE, "")
  ELSE IF r.pc = "delay" THEN Ended(r, "aborted")
  ELSE r

\* The run of controller c is at `next`; when its promise has settled,
\* `.finally` of the route has run.
Moves(c, next) ==
  /\ crawl' = [crawl EXCEPT ![c] = next]
  /\ scrapeJob' = IF next.pc = "done" THEN NoJob ELSE scrapeJob
  /\ UNCHANGED <<aborted, files, backups, remote, dl, passVars, filterVars, writeVars, syncVars, extractVars>>

\* POST /scrape while scrapeJob.running: the run is told to abort.
PostScrapeAbort ==
  /\ scrapeJob.running
  /\ aborted' = [aborted EXCEPT ![scrapeJob.controller] = TRUE]
  /\ crawl' = [crawl EXCEPT ![scrapeJob.controller] = OnAbort(@)]
  /\ scrapeJob' = NoJob
  /\ UNCHANGED <<files, backups, remote, dl, passVars, filterVars, writeVars, syncVars, extractVars>>

\* POST /scrape otherwise: a new controller, and scrapeMotorcyclePage (with
\* modelUrl) or scrapeCategoryList is called, which runs up to its first
\* fetch.
PostScrapeStart ==
  /\ ~scrapeJob.running
  /\ \E c \in Controllers :
       /\ crawl[c].pc = "none"
       /\ \A b \in Controllers : b < c => crawl[b].pc # "none"
       /\ \E mode \in {"list", "single"} :
            crawl' = [crawl EXCEPT ![c] =
                        [NotStarted EXCEPT
                           !.pc = IF mode = "list" THEN "categoryFetch"
                                  ELSE "pageFetch",
                           !.mode = mode]]
       /\ scrapeJob' = [running |-> TRUE, controller |-> c]
  /\ UNCHANGED <<aborted, files, backups, remote, dl, passVars, filterVars, writeVars, syncVars, extractVars>>

\* The fetch of the listing ends: an error is logged and the run returns;
\* else the loop over the links starts with the fetch of the first page.
CategoryFetched(c) ==
  /\ crawl[c].pc = "categoryFetch"
  /\ ~aborted[c]
  /\ \E n \in 0..MaxLinks :
     \E ok \in BOOLEAN :
       Moves(c, IF ~ok THEN Ended(crawl[c], "failed")
                ELSE IF n = 0 THEN Ended(crawl[c], "completed")
                ELSE [crawl[c] EXCEPT !.pc = "pageFetch", !.links = n])

\* The fetch of a model page ends: with an error the page is skipped.
PageFetched(c) ==
  /\ crawl[c].pc = "pageFetch"
  /\ ~aborted[c]
  /\ \E k \in 0..MaxParts :
     \E ok \in BOOLEAN :
       Moves(c, IF ~ok THEN AfterPage(crawl[c], aborted[c], "")
                ELSE [crawl[c] EXCEPT !.pc = "vehicle", !.parts = k,
                                      !.failed = ""])

\* The vehicle is correlated; scrapeParts extracts the records and looks
\* up the first, or calls markDeletedParts when there is none.
VehicleCorrelated(c) ==
  /\ crawl[c].pc = "vehicle"
  /\ \E dbOk \in BOOLEAN :
       Moves(c, IF ~dbOk THEN AfterPage(crawl[c], aborted[c], "vehicle")
                ELSE [crawl[c] EXCEPT
                        !.pc = IF crawl[c].parts > 0 THEN "parts" ELSE "reconcile",
                        !.failed = ""])

\* The lookup of the part returns; it is outside the try of the loop, so
\* if it throws scrapeParts rejects and scrapeMotorcyclePage catches.  Else
\* the INSERT of a new part (caught if it throws) and syncPartImages, which
\* downloads m images.
PartLookedUp(c) ==
  /\ crawl[c].pc = "parts"
  /\ \E m \in 0..MaxImages :
     \E db \in {"ok", "lookup", "write"} :
       Moves(c, IF db = "lookup" THEN AfterPage(crawl[c], aborted[c], "lookup")
                ELSE IF db = "write" THEN NextPart(crawl[c], "write")
                ELSE IF m > 0
                  THEN [crawl[c] EXCEPT !.pc = "probe", !.images = m, !.failed = ""]
                ELSE [crawl[c] EXCEPT !.pc = "write", !.failed = ""])

\* The HEAD probe returns: the sizes are equal and the image is done, or
\* the GET is sent.
ProbeDone(c) ==
  /\ crawl[c].pc = "probe"
  /\ \E equal \in BOOLEAN :
     \E upsertOk \in BOOLEAN :
       Moves(c, IF equal THEN ImageDone(crawl[c], upsertOk)
                ELSE [crawl[c] EXCEPT !.pc = "get", !.failed = ""])

\* The GET of the image returns or fails.
GetDone(c) ==
  /\ crawl[c].pc = "get"
  /\ \E upsertOk \in BOOLEAN : Moves(c, ImageDone(crawl[c], upsertOk))

\* The db calls that finish the part return or throw (caught).
PartWritten(c) ==
  /\ crawl[c].pc = "write"
  /\ \E dbOk \in BOOLEAN :
       Moves(c, NextPart(crawl[c], IF dbOk THEN "" ELSE "write"))

\* markDeletedParts returns or throws.
Reconciled(c) ==
  /\ crawl[c].pc = "reconcile"
  /\ \E dbOk \in BOOLEAN :
       Moves(c, AfterPage(crawl[c], aborted[c], IF dbOk THEN "" ELSE "reconcile"))

\* The timer of waitOrAbort fires: the next link, or the run is complete.
DelayDone(c) ==
  /\ crawl[c].pc = "delay"
  /\ ~aborted[c]
  /\ Moves(c, IF crawl[c].links > 1
                THEN [crawl[c] EXCEPT !.pc = "pageFetch",
                                      !.links = crawl[c].links - 1,
                                      !.page = crawl[c].page + 1, !.failed = ""]
                ELSE [Ended(crawl[c], "completed") EXCEPT !.failed = ""])

JobNext ==
  \/ PostScrapeAbort
  \/ PostScrapeStart
  \/ \E c \in Controllers : CategoryFetched(c)
  \/ \E c \in Controllers : PageFetched(c)
  \/ \E c \in Controllers : VehicleCorrelated(c)
  \/ \E c \in Controllers : PartLookedUp(c)
  \/ \E c \in Controllers : ProbeDone(c)
  \/ \E c \in Controllers : GetDone(c)
  \/ \E c \in Controllers : PartWritten(c)
  \/ \E c \in Controllers : Reconciled(c)
  \/ \E c \in Controllers : DelayDone(c)

JobSpec == Init /\ [][JobNext]_vars

\* -------------------------------------------------------- the link filter

\* The pre-filter of the loop over the links of scrapeCategoryList, for a
\* request with the allow-list allowedBrands and a link with text linkText:
\* the filters are normalized, brand and model extracted from the text,
\* and the link is scraped or skipped.  The allow-list is that of the run.
FilterLink ==
  /\ \E allowedBrands \in (IF filterCall.called THEN {filterCall.allowedBrands}
                           ELSE FilterLists) :
     \E linkText \in LinkTexts :
       LET filters == normalizeFilterList(allowedBrands)
           bm == extractBrandModelText(linkText)
       IN filterCall' = [called |-> TRUE, allowedBrands |-> allowedBrands,
                         linkText |-> linkText,
                         allowed |-> matchesAllowedFilter(filters, linkText,
                                                          bm[1], bm[2])]
  /\ UNCHANGED <<files, backups, remote, dl, passVars, jobVars, writeVars, syncVars, extractVars>>

FilterNext == FilterLink

FilterSpec == Init /\ [][FilterNext]_vars

\* ------------------------------------------- a pass, db call by db call
\* scrapeParts and markDeletedParts for one vehicle with every db call a
\* step of its own that returns or throws.  wr.pc says where the pass is:
\*   "lookup"   the db.get that looks up the next part (or, the loop over,
\*              the SELECT of markDeletedParts)
\*   "write"    the db.run calls of the part, wr.steps in their order
\*   "archive"  the history INSERTs of markDeletedParts, wr.rows to go
\*   "flip"     the UPDATE of markDeletedParts
\* Images are not downloaded here, and the part_images rows are left out.

WriteVehicle == MotorcycleIdOf(LinkAprilia.text)
WritePageUrl == normalizeModelUrl(LinkAprilia.href)
WritePages == {<<>>, <<Tank>>, <<TankPrice>>, <<Tank, Seat>>}

\* The db.run calls of the new-part branch, in the order of the code.
NewSteps == <<"insert", "stamp">>

ExistingStepsUpdateFirst(changed) ==
  IF changed THEN <<"update", "history", "stamp">> ELSE <<"stamp">>

\* The db.run calls of the existing-part branch, in the order of the code.
ExistingSteps(changed) ==
  IF changed THEN <<"history", "update", "stamp">> ELSE <<"stamp">>

\* The parts table after the db.run call `step` of the part.
WriteParts(step, id, part) ==
  IF step = "insert"
    THEN (id :> NewPartRow(id, WriteVehicle, part, WritePageUrl, wr.ts)) @@ parts
  ELSE IF step = "update"
    THEN [parts EXCEPT ![id] = UpdatedRow(@, part, WritePageUrl, wr.ts)]
  ELSE IF step = "stamp"
    THEN [parts EXCEPT ![id] = StampRow(@, part_images, wr.ts)]
  ELSE parts

\* The parts_history table after the db.run call `step` of the part.
WriteHistory(step, id) ==
  IF step = "history"
    THEN InsertHistory(parts_history,
                       HistoryRow(parts[id], parts[id].image_path,
                                  HistoryEvent(parts[id]), wr.ts))
    ELSE parts_history

\* The iteration of the loop of scrapeParts is over.
WrNextPart == [wr EXCEPT !.pc = "lookup", !.queue = Tail(wr.queue),
                         !.existing = NULL, !.steps = <<>>]

\* What only the passes of Spec, DownloadSpec, JobSpec and FilterSpec change.
notWritten == <<motorcycles, part_images, files, backups, remote, remoteChanges,
                options, pc, run, log, fetchFailures, dl, jobVars, filterVars, syncVars, extractVars>>

\* scrapeParts is called for a page with the records `page`.
WrBegin ==
  /\ wr.pc = "idle"
  /\ wr.ts < MaxPass
  /\ \E page \in WritePages :
       wr' = [NoWrites EXCEPT !.pc = "lookup", !.ts = wr.ts + 1, !.queue = page,
                              !.start = parts]
  /\ UNCHANGED <<parts, parts_history, notWritten>>

\* The id is pushed to seenPartIds and the part looked up.  The lookup is
\* outside the try: when it throws, scrapeParts rejects, scrapeMotorcyclePage
\* catches and returns.
WrLookup ==
  /\ wr.pc = "lookup"
  /\ wr.queue # <<>>
  /\ LET part == Head(wr.queue)
         rows == MatchingRows(parts, WriteVehicle, part)
         seen == Append(wr.seenPartIds, PartIdOf(WriteVehicle, part))
     IN \E ok \in BOOLEAN :
        \E existing \in (IF rows = {} THEN {NULL} ELSE rows) :
          wr' = IF ~ok THEN [wr EXCEPT !.pc = "idle", !.seenPartIds = seen]
                ELSE [wr EXCEPT
                        !.pc = "write", !.seenPartIds = seen,
                        !.existing = existing,
                        !.steps =
                          IF existing = NULL THEN NewSteps
                          ELSE ExistingSteps(
                                 \/ FieldChanges(parts[existing], part) # {}
                                 \/ parts[existing].is_deleted # 0)]
  /\ UNCHANGED <<parts, parts_history, notWritten>>

\* The next db.run call of the part returns, or throws and the catch of
\* the iteration skips the calls that are left.
WrWrite ==
  /\ wr.pc = "write"
  /\ LET part == Head(wr.queue)
         id == IF wr.existing = NULL THEN PartIdOf(WriteVehicle, part)
               ELSE wr.existing
         step == Head(wr.steps)
     IN \E ok \in BOOLEAN :
          IF ok /\ (step = "insert" =>
                      PartsInsertAllowed(parts, NewPartRow(id, WriteVehicle, part,
                                                           WritePageUrl, wr.ts)))
            THEN /\ parts' = WriteParts(step, id, part)
                 /\ parts_history' = WriteHistory(step, id)
                 /\ wr' = IF Len(wr.steps) > 1 THEN [wr EXCEPT !.steps = Tail(@)]
                          ELSE WrNextPart
            ELSE /\ wr' = WrNextPart
                 /\ UNCHANGED <<parts, parts_history>>
  /\ UNCHANGED notWritten

\* The loop is over: markDeletedParts selects the rows to delete; it
\* returns if there is none.
WrSelect ==
  /\ wr.pc = "lookup"
  /\ wr.queue = <<>>
  /\ \E ok \in BOOLEAN :
     \E order \in RowOrders(parts, DeletedRows(parts, WriteVehicle, wr.seenPartIds)) :
       wr' = IF ok /\ order # <<>>
               THEN [wr EXCEPT !.pc = "archive", !.rows = order]
               ELSE [wr EXCEPT !.pc = "idle"]
  /\ UNCHANGED <<parts, parts_history, notWritten>>

\* The history INSERT of the next selected row returns or throws.
WrArchive ==
  /\ wr.pc = "archive"
  /\ \E ok \in BOOLEAN :
       IF ok
         THEN /\ parts_history' =
                   InsertHistory(parts_history,
                                 DeletedHistoryRow(parts[Head(wr.rows)],
                                                   WriteVehicle, wr.ts))
              /\ wr' = [wr EXCEPT !.rows = Tail(@),
                                  !.pc = IF Len(wr.rows) > 1 THEN "archive"
                                         ELSE "flip"]
         ELSE /\ wr' = [wr EXCEPT !.pc = "idle"]
              /\ UNCHANGED parts_history
  /\ UNCHANGED <<parts, notWritten>>

\* The UPDATE that sets is_deleted = 1 returns or throws.
WrFlip ==
  /\ wr.pc = "flip"
  /\ \E ok \in BOOLEAN :
       parts' = IF ok THEN FlipDeleted(parts, WriteVehicle, wr.seenPartIds, wr.ts)
                ELSE parts
  /\ wr' = [wr EXCEPT !.pc = "idle"]
  /\ UNCHANGED <<parts_history, notWritten>>

WriteNext ==
  \/ WrBegin
  \/ WrLookup
  \/ WrWrite
  \/ WrSelect
  \/ WrArchive
  \/ WrFlip

WriteSpec == Init /\ [][WriteNext]_vars

\* ------------------------------------------ syncPartImages, image by image
\* sync.pc is "loop" inside the for loop of syncPartImages, before the
\* iteration of uniqueUrls[sync.i]; sync.results is the array results;
\* sync.last is the image of the last iteration and how its HEAD probe and
\* its GET went; sync.now is Date.now(), the number of the iteration.

\* The parts whose images are synchronized and the image lists of a record.
SyncPartIds == {PartIdOf(WriteVehicle, Tank), PartIdOf(WriteVehicle, Seat)}
SyncImageLists == {<<>>, <<ImageA>>, <<ImageA, NULL, ImageA, ImageB>>}

notSynced == <<motorcycles, parts, parts_history, remoteChanges, options, pc,
               run, log, fetchFailures, dl, jobVars, filterVars, writeVars,
               extractVars>>

\* syncPartImages(partId, imageUrls, downloadImages) is called.
SyncBegin ==
  /\ sync.pc = "idle"
  /\ sync.calls < MaxSyncs
  /\ \E partId \in SyncPartIds :
     \E imageUrls \in SyncImageLists :
     \E downloadImages \in BOOLEAN :
       LET uniqueUrls == UniqueUrls(imageUrls, <<>>)
       IN sync' = [sync EXCEPT !.pc = IF uniqueUrls = <<>> THEN "idle" ELSE "loop",
                               !.calls = sync.calls + 1,
                               !.partId = partId,
                               !.uniqueUrls = uniqueUrls,
                               !.i = 1,
                               !.downloadImages = downloadImages,
                               !.results = <<>>]
  /\ UNCHANGED <<part_images, files, backups, remote, notSynced>>

\* One iteration of the loop: downloadImage, the upsert, results.push.
SyncImage ==
  /\ sync.pc = "loop"
  /\ \E probeOk \in BOOLEAN :
     \E getOk \in BOOLEAN :
       LET imageUrl == sync.uniqueUrls[sync.i]
           st == SyncOneImage(sync.partId, imageUrl, sync.i,
                              [files |-> files, backups |-> backups,
                               images |-> part_images, results |-> sync.results],
                              sync.downloadImages, remote, probeOk, getOk,
                              sync.now + 1)
       IN /\ files' = st.files
          /\ backups' = st.backups
          /\ part_images' = st.images
          /\ sync' = [sync EXCEPT
                        !.pc = IF sync.i < Len(sync.uniqueUrls) THEN "loop" ELSE "idle",
                        !.i = sync.i + 1,
                        !.now = sync.now + 1,
                        !.results = st.results,
                        !.last = [url |-> imageUrl, probeOk |-> probeOk,
                                  getOk |-> getOk]]
  /\ UNCHANGED <<remote, notSynced>>

SyncNext == SyncBegin \/ SyncImage \/ RemoteChange

SyncSpec == Init /\ [][SyncNext]_vars

\* ------------------------------------------------- the extraction of a page
\* scrapeParts up to uniqueParts, for a page that is the sequence of its
\* tables.

notExtracted == <<motorcycles, parts, parts_history, part_images, files, backups,
                  remote, remoteChanges, options, pc, run, log, fetchFailures,
                  dl, jobVars, filterVars, writeVars, syncVars>>

\* scrapeParts is called with the page that was fetched.
ExtractPage ==
  /\ ~extraction.called
  /\ \E tables \in PagesOfTables :
       extraction' = [called |-> TRUE, tables |-> tables,
                      parts |-> ExtractTables(tables, <<>>),
                      uniqueParts |-> UniqueParts(ExtractTables(tables, <<>>), <<>>)]
  /\ UNCHANGED notExtracted

ExtractNext == ExtractPage

ExtractSpec == Init /\ [][ExtractNext]_vars

\* ------------------------------------------------------------ the claims

Last(seq) == seq[Len(seq)]

\* A step of ScrapeParts (one part of the page processed), and the stored
\* row it matched (NULL for a record that matched none).
ScrapePartsStep ==
  /\ pc = "parts" /\ pc' = "parts"
  /\ run.queue # <<>>
  /\ Len(run'.matched) = Len(run.matched) + 1
MatchedNow == Last(run'.matched)
PartNow == Head(run.queue)

\* A step of MarkDeletedParts.
MarkDeletedStep == pc = "parts" /\ pc' = "idle"

\* The history rows a step appends.
Appended == SubSeq(parts_history', Len(parts_history) + 1, Len(parts_history'))

\* The history rows of a part written in the pass with timestamp t.
HistoryInPass(id, t) ==
  {k \in 1..Len(parts_history) :
     parts_history[k].part_id = id /\ parts_history[k].recorded_at = t}

\* The fields a history row archives are those of the parts row `row`.
Archives(h, row) ==
  /\ h.part_id = row.id
  /\ h.name = row.name
  /\ h.part_number = row.part_number
  /\ h.description = row.description
  /\ h.price = row.price
  /\ h.currency = row.currency
  /\ h.image_url = row.image_url
  /\ h.is_deleted = row.is_deleted
  /\ h.deleted_at = row.deleted_at

\* The last two passes fetched the same page, got the same records and the
\* site served the same image bytes.
SamePassTwice ==
  /\ Len(log) >= 2
  /\ log[Len(log)].link = log[Len(log) - 1].link
  /\ log[Len(log)].page = log[Len(log) - 1].page
  /\ log[Len(log)].remote = log[Len(log) - 1].remote

\* C1: when two consecutive passes over a vehicle's page extract the same
\* records and no remote image changed, the second pass appends no history
\* row for the vehicle, and every part it matched has last_seen = its
\* timestamp.
C1_NoOpConvergence ==
  (pc = "idle" /\ SamePassTwice) =>
    /\ \A k \in 1..Len(parts_history) :
         parts_history[k].motorcycle_id = run.motorcycleId
           => parts_history[k].recorded_at # run.scrapeTimestamp
    /\ \A k \in 1..Len(run.matched) :
         run.matched[k] # NULL
           => parts[run.matched[k]].last_seen = run.scrapeTimestamp

PartNumbers == {"12345", "67890"}
HasNumber(page, pn) == \E i \in 1..Len(page) : page[i].partNumber = pn

\* The deleted / restored history rows of a part written at or after pass t.
Transitions(id, t) ==
  SelectSeq(parts_history,
            LAMBDA h : /\ h.part_id = id
                       /\ h.recorded_at >= t
                       /\ h.history_event \in {"deleted", "restored"})

\* The last three passes were over the same page, and the part numbered pn
\* was on it, then not, then on it again.
Roundtrip(pn) ==
  /\ pc = "idle"
  /\ Len(log) >= 3
  /\ log[Len(log)].link = log[Len(log) - 1].link
  /\ log[Len(log)].link = log[Len(log) - 2].link
  /\ HasNumber(log[Len(log) - 2].page, pn)
  /\ ~HasNumber(log[Len(log) - 1].page, pn)
  /\ HasNumber(log[Len(log)].page, pn)

\* C2: a part present in pass 1, absent in pass 2 and present again in pass
\* 3 has, in write order, one `deleted` row recorded at pass 2 and then one
\* `restored` row recorded at pass 3, and its live row is not deleted.
C2_DeleteRestoreRoundtrip ==
  \A pn \in PartNumbers :
    Roundtrip(pn) =>
      LET id == generateId(<<run.motorcycleId, pn>>)
          ev == Transitions(id, run.scrapeTimestamp - 1)
      IN /\ id \in DOMAIN parts
         /\ Len(ev) = 2
         /\ ev[1].history_event = "deleted"
         /\ ev[1].recorded_at = run.scrapeTimestamp - 1
         /\ ev[2].history_event = "restored"
         /\ ev[2].recorded_at = run.scrapeTimestamp
         /\ parts[id].is_deleted = 0
         /\ parts[id].deleted_at = NullTime

C2_Witness ==
  \E pn \in PartNumbers :
    /\ Roundtrip(pn)
    /\ Len(Transitions(generateId(<<run.motorcycleId, pn>>), 1)) = 2

\* C3: reconciliation archives every part of the vehicle that is not in the
\* seen set and not yet deleted with exactly one `deleted` row holding its
\* values (is_deleted = 0), then sets is_deleted = 1 and deleted_at = pass
\* timestamp; every other part row is left as it is.
C3_TombstoneReconciliation ==
  [][MarkDeletedStep =>
       LET unseen == {id \in DOMAIN parts :
                        /\ parts[id].motorcycle_id = run.motorcycleId
                        /\ \A k \in 1..Len(run.seenPartIds) : run.seenPartIds[k] # id
                        /\ parts[id].is_deleted = 0}
       IN /\ Len(Appended) = Cardinality(unseen)
          /\ DOMAIN parts' = DOMAIN parts
          /\ \A id \in unseen :
               /\ \E k \in 1..Len(Appended) :
                    /\ Archives(Appended[k], parts[id])
                    /\ Appended[k].history_event = "deleted"
                    /\ Appended[k].is_deleted = 0
                    /\ Appended[k].recorded_at = run.scrapeTimestamp
               /\ parts'[id] = [parts[id] EXCEPT !.is_deleted = 1,
                                                 !.deleted_at = run.scrapeTimestamp]
          /\ \A id \in DOMAIN parts \ unseen : parts'[id] = parts[id]
  ]_vars

C3_Witness ==
  /\ pc = "idle"
  /\ \E id \in DOMAIN parts :
       /\ parts[id].is_deleted = 1
       /\ parts[id].deleted_at = run.scrapeTimestamp
       /\ HistoryInPass(id, run.scrapeTimestamp) # {}
  /\ \E id \in DOMAIN parts :
       /\ parts[id].motorcycle_id # run.motorcycleId
       /\ parts[id].is_deleted = 0

\* The row a matched record found stored before this pass wrote to it (the
\* row as matched, for a row this pass inserted).
StoredBeforePass(id) ==
  IF id \in DOMAIN run.startParts THEN run.startParts[id] ELSE parts[id]

\* An image file that existed was given other bytes by the step.
ImageReplaced ==
  \E path \in DOMAIN files : files'[path] # files[path]

\* C4: a matched part with a field diff, a changed image or a soft-deleted
\* stored row gets exactly one history row holding the stored row's values
\* from before this pass wrote to it, tagged `restored` if that row was
\* deleted and `updated` otherwise; without any of the three, none.
C4_ArchiveOnChange ==
  [][(ScrapePartsStep /\ MatchedNow # NULL) =>
       LET stored == StoredBeforePass(MatchedNow)
           trigger == \/ FieldChanges(stored, PartNow) # {}
                      \/ ImageReplaced
                      \/ stored.is_deleted = 1
       IN IF trigger
            THEN /\ Len(Appended) = 1
                 /\ Archives(Appended[1], stored)
                 /\ Appended[1].history_event =
                      IF stored.is_deleted = 1 THEN "restored" ELSE "updated"
            ELSE Appended = <<>>
  ]_vars

\* C5: a record that matches no stored row creates a part row with
\* scraped_at = last_seen = pass timestamp and is_deleted = 0, gets its
\* images synchronized, and no history row is appended.
C5_FirstSighting ==
  [][(ScrapePartsStep /\ MatchedNow = NULL) =>
       LET id == PartIdOf(run.motorcycleId, PartNow)
       IN /\ id \notin DOMAIN parts
          /\ id \in DOMAIN parts'
          /\ parts'[id].scraped_at = run.scrapeTimestamp
          /\ parts'[id].last_seen = run.scrapeTimestamp
          /\ parts'[id].is_deleted = 0
          /\ \A i \in 1..Len(PartNow.imageUrls) :
               \E k \in 1..Len(part_images') :
                 /\ part_images'[k].part_id = id
                 /\ part_images'[k].image_url = PartNow.imageUrls[i]
          /\ parts_history' = parts_history
  ]_vars

\* C6: every stored part has the id derived from its vehicle and part
\* number, and there is at most one parts row per (vehicle, part number).
C6_NoDuplicateParts ==
  /\ \A id \in DOMAIN parts :
       /\ parts[id].id = id
       /\ id = generateId(<<parts[id].motorcycle_id, parts[id].part_number>>)
  /\ \A a, b \in DOMAIN parts :
       (/\ parts[a].motorcycle_id = parts[b].motorcycle_id
        /\ parts[a].part_number = parts[b].part_number) => a = b

C6_Witness ==
  /\ pc = "idle"
  /\ Cardinality(DOMAIN parts) >= 2
  /\ \E id \in DOMAIN parts :
       /\ parts[id].last_seen = run.scrapeTimestamp
       /\ parts[id].scraped_at < run.scrapeTimestamp
       /\ id \in DOMAIN run.startParts

\* C7: when a record matched to a stored row has been processed, the row
\* has last_seen = pass timestamp, is_deleted = 0, deleted_at = NULL, and
\* its image_path is the asset table's path for (part, image_url) whenever
\* that asset row has one.
C7_FinalStamp ==
  [][(ScrapePartsStep /\ MatchedNow # NULL) =>
       LET row == parts'[MatchedNow]
       IN /\ row.last_seen = run.scrapeTimestamp
          /\ row.is_deleted = 0
          /\ row.deleted_at = NullTime
          /\ \A k \in 1..Len(part_images') :
               (/\ part_images'[k].part_id = row.id
                /\ part_images'[k].image_url = row.image_url
                /\ part_images'[k].image_path # NULL)
                 => row.image_path = part_images'[k].image_path
  ]_vars

C7_Witness ==
  /\ pc = "parts"
  /\ run.matched # <<>>
  /\ Last(run.matched) # NULL
  /\ parts[Last(run.matched)].last_seen = run.scrapeTimestamp
  /\ parts[Last(run.matched)].image_path # NULL
  /\ Last(run.matched) \in DOMAIN run.startParts
  /\ run.startParts[Last(run.matched)].is_deleted = 1
  /\ run.startParts[Last(run.matched)].image_url # parts[Last(run.matched)].image_url

\* C8: after a change was detected for a matched part, the live row's
\* name, description, price, currency and primary image reference are the
\* extracted ones (also without an image), so the same record shows no diff.
C8_NewValuesApplied ==
  [][(ScrapePartsStep /\ MatchedNow # NULL /\ Appended # <<>>) =>
       LET row == parts'[MatchedNow]
       IN /\ row.name = PartNow.name
          /\ row.description = PartNow.description
          /\ row.price = PartNow.price
          /\ row.currency = PartNow.currency
          /\ row.image_url = PartNow.imageUrl
          /\ FieldChanges(row, PartNow) = {}
  ]_vars

\* C9: in a single pass at most one history row is appended for a part.
C9_OneHistoryRowPerPass ==
  \A id \in DOMAIN parts : \A t \in 1..Len(log) :
    Cardinality(HistoryInPass(id, t)) <= 1

\* C10: history is append-only: every step keeps the rows that are there,
\* with all their values, and only adds rows after them.
C10_HistoryAppendOnly ==
  [][/\ Len(parts_history') >= Len(parts_history)
     /\ SubSeq(parts_history', 1, Len(parts_history)) = parts_history
  ]_vars

C10_Witness ==
  /\ Len(parts_history) >= 3
  /\ \E i, j \in 1..Len(parts_history) :
       i < j /\ parts_history[i].part_id = parts_history[j].part_id

\* C11: in every reachable state every parts row with is_deleted = 1 has a
\* non-null deleted_at.
C11_DeletedHasTimestamp ==
  \A id \in DOMAIN parts :
    parts[id].is_deleted = 1 => parts[id].deleted_at # NullTime

C11_Witness ==
  /\ \E id \in DOMAIN parts :
       parts[id].is_deleted = 1 /\ parts[id].deleted_at # NullTime
  /\ \E id \in DOMAIN parts \cap DOMAIN run.startParts :
       /\ run.startParts[id].is_deleted = 1
       /\ parts[id].is_deleted = 0
       /\ parts[id].deleted_at = NullTime

\* C12: no step of a crawl pass removes a parts row or a motorcycles row
\* or changes the id or the vehicle of a stored part; a part that is
\* missing from its page stays stored, as a tombstone.
C12_NoHardDelete ==
  [][/\ DOMAIN parts \subseteq DOMAIN parts'
     /\ DOMAIN motorcycles \subseteq DOMAIN motorcycles'
     /\ \A id \in DOMAIN parts :
          /\ parts'[id].id = parts[id].id
          /\ parts'[id].motorcycle_id = parts[id].motorcycle_id
     /\ MarkDeletedStep =>
          \A id \in DOMAIN parts :
            (/\ parts[id].motorcycle_id = run.motorcycleId
             /\ \A k \in 1..Len(run.seenPartIds) : run.seenPartIds[k] # id)
              => id \in DOMAIN parts' /\ parts'[id].is_deleted = 1
  ]_vars

C12_Witness ==
  /\ pc = "idle"
  /\ Cardinality(DOMAIN motorcycles) = 2
  /\ \E id \in DOMAIN parts :
       /\ parts[id].is_deleted = 1
       /\ parts[id].last_seen < parts[id].deleted_at
       /\ parts[id].last_seen # NullTime

\* C13: reconciliation is idempotent: a part that is already deleted gets
\* no history row and keeps its row (deleted_at included), and running the
\* reconciliation again with the same vehicle and seen ids changes neither
\* parts nor parts_history.
C13_ReconciliationIdempotent ==
  [][MarkDeletedStep =>
       /\ \A id \in DOMAIN parts :
            parts[id].is_deleted = 1 =>
              /\ parts'[id] = parts[id]
              /\ \A k \in 1..Len(Appended) : Appended[k].part_id # id
       /\ FlipDeleted(parts', run.motorcycleId, run.seenPartIds,
                      run.scrapeTimestamp) = parts'
       /\ \A order \in RowOrders(parts', DeletedRows(parts', run.motorcycleId,
                                                     run.seenPartIds)) :
            ArchiveDeleted(parts_history', parts', order, run.motorcycleId,
                           run.scrapeTimestamp) = parts_history'
  ]_vars

C13_Witness ==
  /\ pc = "idle"
  /\ \E id \in DOMAIN parts :
       /\ parts[id].motorcycle_id = run.motorcycleId
       /\ parts[id].is_deleted = 1
       /\ parts[id].deleted_at < run.scrapeTimestamp
       /\ HistoryInPass(id, run.scrapeTimestamp) = {}
       /\ \A k \in 1..Len(run.seenPartIds) : run.seenPartIds[k] # id

\* A step in which the fetch of a model page failed.
FetchFailedStep == fetchFailures' = fetchFailures + 1

\* C16: a failed model-page fetch writes or modifies no motorcycles, parts,
\* parts_history or part_images row (no part is tombstoned), and the call
\* returns, so that the next model page is processed.
C16_FailedFetchSkipped ==
  [][FetchFailedStep =>
       /\ motorcycles' = motorcycles
       /\ parts' = parts
       /\ parts_history' = parts_history
       /\ part_images' = part_images
       /\ pc' = "idle"
  ]_vars

C16_Witness ==
  /\ fetchFailures = 1
  /\ pc = "idle"
  /\ Len(log) >= 2
  /\ \E id \in DOMAIN parts : parts[id].is_deleted = 0

\* A step in which a model page was fetched and its vehicle correlated.
PageStep == pc = "idle" /\ pc' = "parts"

\* C20: a stored vehicle whose URL is the page URL is reused, with brand
\* and model brought up to date, whatever id brand and model hash to; else
\* a stored vehicle with the hashed id is reused; else a new row with the
\* hashed id is inserted.  No other row is touched.
C20_VehicleMatchingPriority ==
  [][PageStep =>
       LET listingUrl == normalizeModelUrl(run'.link.href)
           bm == extractBrandModel(run'.link.text)
           hashed == generateId(<<bm[1], bm[2]>>)
           byUrl == {id \in DOMAIN motorcycles : motorcycles[id].url = listingUrl}
           id == run'.motorcycleId
       IN /\ id \in DOMAIN motorcycles'
          /\ motorcycles'[id].id = id
          /\ motorcycles'[id].brand = bm[1]
          /\ motorcycles'[id].model = bm[2]
          /\ motorcycles'[id].url = listingUrl
          /\ \A other \in DOMAIN motorcycles \ {id} :
               other \in DOMAIN motorcycles' /\ motorcycles'[other] = motorcycles[other]
          /\ IF byUrl # {}
               THEN id \in byUrl /\ DOMAIN motorcycles' = DOMAIN motorcycles
               ELSE IF hashed \in DOMAIN motorcycles
                 THEN id = hashed /\ DOMAIN motorcycles' = DOMAIN motorcycles
                 ELSE /\ id = hashed
                      /\ DOMAIN motorcycles' = DOMAIN motorcycles \cup {hashed}
  ]_vars

C20_Witness ==
  /\ pc = "parts"
  /\ run.motorcycleId # MotorcycleIdOf(run.link.text)
  /\ MotorcycleIdOf(run.link.text) \in DOMAIN motorcycles
  /\ motorcycles[run.motorcycleId].url = run.pageUrl
  /\ motorcycles[run.motorcycleId].brand = extractBrandModel(run.link.text)[1]
  /\ motorcycles[run.motorcycleId].model = extractBrandModel(run.link.text)[2]

\* A call of downloadImage, the local path of its URL and whether a local
\* file was there.
DownloadStep == dl'.now = dl.now + 1
DownloadPath == getLocalImagePathFromUrl(dl'.url)
LocalKnown == DownloadPath # NULL /\ DownloadPath \in DOMAIN files

\* C18: when the bytes the site serves differ from the bytes of the local
\* file, a sync that succeeds has status `updated` and a backup path, and
\* the backup holds the bytes the local file had before.
C18_ChangedBytesUpdated ==
  [][(/\ DownloadStep
      /\ dl'.result.ok
      /\ LocalKnown
      /\ remote[dl'.url].bytes # files[DownloadPath].bytes) =>
       /\ dl'.result.status = "downloaded_updated"
       /\ dl'.result.previous_filepath # NULL
       /\ dl'.result.previous_filepath \in DOMAIN backups'
       /\ backups'[dl'.result.previous_filepath] = files[DownloadPath]
       /\ files'[DownloadPath] = remote[dl'.url]
  ]_vars

\* C19: a sync classified `unchanged` had a local file of the size the
\* site serves, known from the probe or from the transfer, and leaves the
\* local files and the backups as they were; a sync of an image whose
\* remote bytes are those of the local file, if it succeeds, is classified
\* `unchanged`.
C19_UnchangedLeavesFiles ==
  [][DownloadStep =>
       /\ (dl'.result.ok /\ dl'.result.status = "skipped_unchanged") =>
            /\ LocalKnown
            /\ files[DownloadPath].size = remote[dl'.url].size
            /\ dl'.probeOk \/ dl'.getOk
            /\ files' = files
            /\ backups' = backups
       /\ (dl'.result.ok /\ LocalKnown /\ remote[dl'.url] = files[DownloadPath]) =>
            dl'.result.status = "skipped_unchanged"
  ]_vars

C19_Witness ==
  /\ dl.result.ok
  /\ dl.result.status = "skipped_unchanged"
  /\ ~dl.probeOk
  /\ backups # <<>>
  /\ files[getLocalImagePathFromUrl(dl.url)] = remote[dl.url]

\* What a run awaits while a network call or the inter-page delay is on.
InFlight == {"categoryFetch", "pageFetch", "probe", "get", "delay"}

\* C14: once the signal of a run is aborted, no step of the run starts a
\* fetch of the listing or of a model page, an image probe, an image
\* download or an inter-page delay.
C14_NoCallAfterAbort ==
  [][\A c \in Controllers :
       (aborted[c] /\ crawl'[c] # crawl[c]) => crawl'[c].pc \notin InFlight
  ]_vars

\* The run started with controller c has not returned.
Executing(c) == crawl[c].pc \notin {"none", "done"}

\* C15: at most one run is executing: none is started while an earlier
\* one, aborted or not, has not returned.
C15_OneRunAtATime ==
  Cardinality({c \in Controllers : Executing(c)}) <= 1

\* The run of controller c takes a step in which a db call of the part it
\* is processing throws.
PartFailedStep(c) ==
  /\ crawl[c].pc \in {"parts", "probe", "get", "write"}
  /\ crawl'[c] # crawl[c]
  /\ crawl'[c].failed # ""

\* C17: no failure makes a run reject (it ends completed, aborted or with
\* the failure logged), and a persistence failure while one part is
\* processed leaves the remaining parts of the page to be processed.
C17_NoErrorFatal ==
  [][\A c \in Controllers :
       /\ crawl'[c].outcome \in {"", "completed", "aborted", "failed"}
       /\ (PartFailedStep(c) /\ crawl[c].parts > 1) =>
            /\ crawl'[c].pc = "parts"
            /\ crawl'[c].parts = crawl[c].parts - 1
  ]_vars

\* C21: a record without a part number that matches no stored row is
\* stored as the part whose id is the hash of vehicle and name, and a
\* record without a part number is matched to the stored row of that id
\* whenever there is one.
C21_NumberlessPersisted ==
  [][(ScrapePartsStep /\ PartNow.partNumber = "") =>
       LET id == generateId(<<run.motorcycleId, PartNow.name>>)
       IN /\ MatchedNow = NULL =>
               /\ id \in DOMAIN parts'
               /\ parts'[id].motorcycle_id = run.motorcycleId
               /\ parts'[id].name = PartNow.name
          /\ id \in DOMAIN parts => MatchedNow = id
  ]_vars

\* The lower-cased, punctuation-stripped text formed from the link text
\* and the brand and model extracted from it.
FilterText(linkText) ==
  LET bm == extractBrandModelText(linkText)
  IN Normalized(linkText \o <<Blank>> \o bm[1] \o <<Blank>> \o bm[2])

\* The tokens of a filter group.
GroupTokens(group) ==
  LET words == SplitWords(Normalized(group), <<>>, <<>>)
  IN {words[k] : k \in 1..Len(words)}

\* The token is a substring of the text.
Occurs(token, text) ==
  \E i, j \in 1..Len(text) : i <= j /\ SubSeq(text, i, j) = token

\* C22: a link is allowed iff there is no filter group, or for at least
\* one group every token occurs as a substring of the lower-cased,
\* punctuation-stripped text of link text, brand and model; the groups
\* "aprilia 125" and "cagiva" allow "Aprilia RS 125 parts" and "Cagiva
\* Mito" and not "Honda CBR".
C22_FilterMatching ==
  filterCall.called =>
    LET groups == {GroupTokens(filterCall.allowedBrands[i]) :
                     i \in 1..Len(filterCall.allowedBrands)} \ {{}}
        text == FilterText(filterCall.linkText)
    IN /\ filterCall.allowed <=>
            (groups = {} \/ \E g \in groups : \A t \in g : Occurs(t, text))
       /\ filterCall.allowedBrands = <<FilterAprilia125, FilterCagiva>> =>
            /\ filterCall.linkText = TextApriliaParts => filterCall.allowed
            /\ filterCall.linkText = TextCagivaMito => filterCall.allowed
            /\ filterCall.linkText = TextHondaCbr => ~filterCall.allowed

C22_Witness ==
  /\ filterCall.called
  /\ filterCall.allowedBrands = <<FilterAprilia125, FilterCagiva>>
  /\ filterCall.linkText = TextCagivaMito
  /\ filterCall.allowed

\* The records extracted from the example page, for either img.
ExamplePages == {ExtractParts(ExampleTable(img)) : img \in {ImgPlain, ImgLinked}}

\* C23: from an empty store, one pass over the page with the one block
\* OSA Tank / OSANRO 12345 / HINTA 45 EUR and one img, with or without an
\* enclosing link, leaves exactly one part (Tank, 12345, 45, EUR) and
\* exactly one part_images row.
C23_EndToEndExample ==
  (pc = "idle" /\ Len(log) = 1 /\ log[1].page \in ExamplePages) =>
    /\ Cardinality(DOMAIN parts) = 1
    /\ \A id \in DOMAIN parts :
         /\ parts[id].name = "Tank"
         /\ parts[id].part_number = "12345"
         /\ parts[id].price = 45
         /\ parts[id].currency = EUR
    /\ Len(part_images) = 1

\* C24: the seen ids of a pass contain the id of every stored row matched
\* in it, and when the pass is over (reconciliation done) every stored row
\* it matched has is_deleted = 0.
C24_ObservedNotTombstoned ==
  \A k \in 1..Len(run.matched) :
    run.matched[k] # NULL =>
      /\ \E j \in 1..Len(run.seenPartIds) : run.seenPartIds[j] = run.matched[k]
      /\ pc = "idle" => parts[run.matched[k]].is_deleted = 0

\* C25: a step of the pass over the model page with URL U (a part
\* processed, the reconciliation) leaves every stored part harvested from
\* another URL as it is: not tombstoned, not restored, not modified.
C25_ReconciliationScopedToPage ==
  [][(ScrapePartsStep \/ MarkDeletedStep) =>
       \A id \in DOMAIN parts :
         parts[id].url # run.pageUrl => parts'[id] = parts[id]
  ]_vars

\* The record lists the image URL u.
ListsImage(rec, u) == \E i \in 1..Len(rec.imageUrls) : rec.imageUrls[i] = u

\* The last two passes were over the same page, both listed the record's
\* part with the image u, and the site served other bytes for u in the
\* last pass than in the one before.
ImageChangedFor(rec, u) ==
  /\ Len(log) >= 2
  /\ log[Len(log)].link = log[Len(log) - 1].link
  /\ ListsImage(rec, u)
  /\ \E i \in 1..Len(log[Len(log) - 1].page) :
       /\ log[Len(log) - 1].page[i].partNumber = rec.partNumber
       /\ log[Len(log) - 1].page[i].name = rec.name
       /\ ListsImage(log[Len(log) - 1].page[i], u)
  /\ log[Len(log)].remote[u] # log[Len(log) - 1].remote[u]

\* C26: with image download on, every matched (and not deleted) part that
\* lists an image whose remote bytes changed since the previous pass has
\* an `updated` history row of this pass, also when another part of the
\* page lists the same image.
C26_ImageChangePerPart ==
  (pc = "idle" /\ run.downloadImages) =>
    \A k \in 1..Len(run.matched) :
      (/\ run.matched[k] # NULL
       /\ run.matched[k] \in DOMAIN run.startParts
       /\ run.startParts[run.matched[k]].is_deleted = 0
       /\ \E u \in ImageUrls : ImageChangedFor(run.page[k], u))
        => \E h \in HistoryInPass(run.matched[k], run.scrapeTimestamp) :
             parts_history[h].history_event = "updated"

\* The images of the record processed by the step whose local file was
\* replaced by it and that are the primary image of the stored row: by
\* their URL, or by their local path.
PrimaryReplaced(stored) ==
  {u \in ImageUrls :
     /\ ListsImage(PartNow, u)
     /\ getLocalImagePathFromUrl(u) \in DOMAIN files
     /\ files'[getLocalImagePathFromUrl(u)] # files[getLocalImagePathFromUrl(u)]
     /\ \/ stored.image_url # NULL /\ u = stored.image_url
        \/ /\ stored.image_path # NULL
           /\ DisplayPath(getLocalImagePathFromUrl(u)) = stored.image_path}

\* C27: the history row archived for a matched part has as image_path the
\* backup made in this step of the previous file of the row's primary
\* image when that file was replaced (not the current local path), and
\* the stored row's image_path in every other case.
C27_HistoryImagePath ==
  [][(ScrapePartsStep /\ MatchedNow # NULL /\ Appended # <<>>) =>
       LET stored == parts[MatchedNow]
           path == Appended[1].image_path
       IN IF PrimaryReplaced(stored) # {}
            THEN /\ path \in DOMAIN backups' \ DOMAIN backups
                 /\ path # stored.image_path
                 /\ \E u \in PrimaryReplaced(stored) :
                      backups'[path] = files[getLocalImagePathFromUrl(u)]
            ELSE path = stored.image_path
  ]_vars

C27_Witness ==
  /\ pc = "parts"
  /\ run.matched # <<>>
  /\ Last(run.matched) # NULL
  /\ parts_history # <<>>
  /\ Last(parts_history).part_id = Last(run.matched)
  /\ Last(parts_history).recorded_at = run.scrapeTimestamp
  /\ Last(parts_history).image_path \in DOMAIN backups
  /\ parts[Last(run.matched)].image_path # NULL
  /\ parts[Last(run.matched)].image_path # Last(parts_history).image_path

\* The write changes the row as an update, a restore or a tombstoning
\* does: one of the values a transition sets differs.
TransitionWrite(old, new) ==
  \/ old.name # new.name
  \/ old.description # new.description
  \/ old.price # new.price
  \/ old.currency # new.currency
  \/ old.image_url # new.image_url
  \/ old.url # new.url
  \/ old.scraped_at # new.scraped_at
  \/ old.is_deleted # new.is_deleted
  \/ old.deleted_at # new.deleted_at

\* A history row of the part written in the running pass.
HasHistory(history, id) ==
  \E k \in 1..Len(history) :
    history[k].part_id = id /\ history[k].recorded_at = wr.ts

\* C28: whenever a db call changes a stored parts row as an update, a
\* restore or a tombstoning does, the history row of the part for this
\* pass is already in parts_history; so in every state, whatever call
\* threw or wherever the process stopped, a row changed by the pass has
\* its history row.
C28_HistoryBeforeLiveRow ==
  [][/\ \A id \in DOMAIN parts :
          TransitionWrite(parts[id], parts'[id]) => HasHistory(parts_history, id)
     /\ \A id \in DOMAIN parts \cap DOMAIN wr.start :
          TransitionWrite(wr.start[id], parts[id]) => HasHistory(parts_history, id)
  ]_vars

C28_Witness ==
  /\ wr.pc = "idle"
  /\ \E id \in DOMAIN parts \cap DOMAIN wr.start :
       /\ wr.start[id].price # parts[id].price
       /\ HasHistory(parts_history, id)
  /\ \E id \in DOMAIN parts \cap DOMAIN wr.start :
       /\ wr.start[id] = parts[id]
       /\ HasHistory(parts_history, id)

\* C29: the `deleted` and `restored` history rows of a part alternate in
\* write order, the first being `deleted`, and the live row has
\* is_deleted = 1 exactly when the last of them is `deleted`.
C29_DeletedRestoredAlternate ==
  \A id \in DOMAIN parts :
    LET ev == Transitions(id, 1)
    IN /\ \A k \in 1..Len(ev) :
            ev[k].history_event = IF k % 2 = 1 THEN "deleted" ELSE "restored"
       /\ parts[id].is_deleted = 1 <=>
            (ev # <<>> /\ Last(ev).history_event = "deleted")

C29_Witness ==
  /\ pc = "idle"
  /\ \E id \in DOMAIN parts :
       /\ Len(Transitions(id, 1)) = 2
       /\ parts[id].is_deleted = 0
  /\ \E id \in DOMAIN parts :
       /\ Len(Transitions(id, 1)) = 1
       /\ parts[id].is_deleted = 1

\* C30: markDeletedParts is only called when every part of the page has
\* been through the loop of scrapeParts (none is left), from the loop or
\* for a page without parts; never from the fetch of the page, and never
\* by a step in which the lookup or the vehicle correlation threw,
\* whether or not the signal is aborted.
C30_NoPartialReconciliation ==
  [][\A c \in Controllers :
       /\ crawl'[c].pc = "reconcile" => crawl'[c].parts = 0
       /\ (crawl[c].pc # "reconcile" /\ crawl'[c].pc = "reconcile") =>
            /\ crawl[c].pc \in {"vehicle", "parts", "probe", "get", "write"}
            /\ crawl[c].parts <= 1
       /\ (crawl'[c] # crawl[c] /\ crawl'[c].failed \in {"lookup", "vehicle"}) =>
            crawl'[c].pc # "reconcile"
  ]_vars

C30_Witness ==
  \E c \in Controllers :
    /\ aborted[c]
    /\ crawl[c].pc = "reconcile"
    /\ crawl[c].failed = "write"
    /\ crawl[c].parts = 0

\* C31: while a run that has not been told to abort is executing,
\* scrapeJob.running is true and scrapeJob.controller is the controller of
\* that run; the completion of an earlier, aborted run does not reset the
\* state of a newer run.
C31_RunStatusTruthful ==
  \A c \in Controllers :
    (Executing(c) /\ ~aborted[c]) =>
      /\ scrapeJob.running
      /\ scrapeJob.controller = c

\* C32: a run of scrapeCategoryList whose signal has fired, whatever it
\* was awaiting when it fired, ends reported as aborted and never as an
\* error.
C32_CleanAbort ==
  [][\A c \in Controllers :
       (/\ Executing(c)
        /\ crawl[c].mode = "list"
        /\ aborted'[c]
        /\ crawl'[c].pc = "done") => crawl'[c].outcome = "aborted"
  ]_vars

C34_AssetOrdering ==
  \A j \in 1..Len(part_images) :
    LET earlier == {k \in 1..(j - 1) : part_images[k].part_id = part_images[j].part_id}
    IN /\ \A k \in earlier :
            /\ part_images[k].image_url # part_images[j].image_url
            /\ part_images[k].sort_order < part_images[j].sort_order
       /\ (part_images[j].sort_order = 0) <=> (earlier = {})

\* C35: no two rows of motorcycles have the same url (the normalized URL
\* of the model page).
C35_UniqueVehicleUrl ==
  \A a \in DOMAIN motorcycles :
    \A b \in DOMAIN motorcycles :
      a # b => motorcycles[a].url # motorcycles[b].url

\* C35: a page has been correlated by its URL to a row other than the one
\* its brand and model hash to, which is stored too: two rows carry the
\* same brand and model.
C35_Witness ==
  \E a \in DOMAIN motorcycles :
    \E b \in DOMAIN motorcycles :
      /\ a # b
      /\ motorcycles[a].brand = motorcycles[b].brand
      /\ motorcycles[a].model = motorcycles[b].model
      /\ motorcycles[a].url = normalizeModelUrl(LinkKtm.href)
      /\ b = MotorcycleIdOf(LinkRelabelled.text)

\* C36: when a record is matched to a stored row that is not soft-deleted,
\* no field differs and no local image file is replaced, the step leaves
\* scraped_at, name, part_number, description, price, currency, image_url
\* and url of the row as they were and appends no history row; of the
\* other columns only last_seen and image_path can change, image_path to
\* the path of an asset row of the part.
C36_NoTransitionFrame ==
  [][(/\ ScrapePartsStep
      /\ MatchedNow # NULL
      /\ parts[MatchedNow].is_deleted = 0
      /\ FieldChanges(parts[MatchedNow], PartNow) = {}
      /\ backups' = backups) =>
       LET old == parts[MatchedNow]
           new == parts'[MatchedNow]
       IN /\ new = [old EXCEPT !.last_seen = new.last_seen,
                               !.image_path = new.image_path]
          /\ new.last_seen = run.scrapeTimestamp
          /\ \/ new.image_path = old.image_path
             \/ \E k \in 1..Len(part_images') :
                  /\ part_images'[k].part_id = new.id
                  /\ part_images'[k].image_url = new.image_url
                  /\ part_images'[k].image_path = new.image_path
          /\ Appended = <<>>
  ]_vars

\* C36: a stored row has been matched in a later pass than the one that
\* wrote its values, and only its last_seen was moved.
C36_Witness ==
  /\ pc = "parts"
  /\ run.matched # <<>>
  /\ Last(run.matched) # NULL
  /\ parts[Last(run.matched)].last_seen = run.scrapeTimestamp
  /\ parts[Last(run.matched)].scraped_at < run.scrapeTimestamp
  /\ HistoryInPass(Last(run.matched), run.scrapeTimestamp) = {}
  /\ parts[Last(run.matched)] =
       [run.startParts[Last(run.matched)] EXCEPT !.last_seen = run.scrapeTimestamp]

\* An iteration of the loop of syncPartImages, and one in which the sync
\* of the image fails: downloads are on, the probe does not show the local
\* file to be current (it fails, or the sizes differ, or there is no local
\* file), and the transfer fails.
SyncImageStep == sync'.now = sync.now + 1
SyncedPath == getLocalImagePathFromUrl(sync'.last.url)
SyncFailedStep ==
  /\ SyncImageStep
  /\ sync.downloadImages
  /\ ~sync'.last.getOk
  /\ ~(/\ sync'.last.probeOk
       /\ SyncedPath \in DOMAIN files
       /\ files[SyncedPath].size = remote[sync'.last.url].size)

PageBlocks(tables) ==
  UNION {{<<t, i>> : i \in {h \in 1..Len(tables[t].rows) :
                              \E c \in 1..Len(tables[t].rows[h]) :
                                IsOsa(tables[t].rows[h][c])}} :
         t \in 1..Len(tables)}
BlockRows(tables, q) ==
  {j \in (q[2] + 1)..Len(tables[q[1]].rows) :
     \A h \in (q[2] + 1)..j : <<q[1], h>> \notin PageBlocks(tables)}
BlockName(tables, q) == LastNamed(tables[q[1]].rows[q[2]])
ParsedPrice(tables, q) ==
  LET priced == {j \in BlockRows(tables, q) : RowHasPrice(tables[q[1]].rows[j])}
      last == CHOOSE j \in priced : \A h \in priced : h <= j
  IN IF priced = {} THEN 0 ELSE RowPrice(tables[q[1]].rows[last])
KeptBlocks(tables) ==
  {q \in PageBlocks(tables) : BlockName(tables, q) # "" /\ ParsedPrice(tables, q) > 0}
Before(p, q) == p[1] < q[1] \/ (p[1] = q[1] /\ p[2] < q[2])

\* C38: the candidate records of a page are, in page order, those of its
\* blocks that have a non-empty name and a parsed price above 0, one
\* record per such block and none for any other block; so every record the
\* part loop inserts or updates has a name and a positive price.
C38_ExtractionKeepRule ==
  extraction.called =>
    LET kept == KeptBlocks(extraction.tables)
    IN /\ Len(extraction.parts) = Cardinality(kept)
       /\ \A q \in kept :
            LET k == Cardinality({p \in kept : Before(p, q)}) + 1
            IN /\ extraction.parts[k].name = BlockName(extraction.tables, q)
               /\ extraction.parts[k].price = ParsedPrice(extraction.tables, q)
       /\ \A k \in 1..Len(extraction.uniqueParts) :
            /\ extraction.uniqueParts[k].name # ""
            /\ extraction.uniqueParts[k].price > 0

\* C38: a page has been extracted with a block without a price, a block
\* whose price is 0 EUR and a block that is kept.
C38_Witness ==
  /\ extraction.called
  /\ extraction.parts # <<>>
  /\ \E q \in PageBlocks(extraction.tables) :
       /\ q \notin KeptBlocks(extraction.tables)
       /\ \E j \in BlockRows(extraction.tables, q) :
            RowHasPrice(extraction.tables[q[1]].rows[j])
  /\ \E q \in PageBlocks(extraction.tables) :
       /\ q \notin KeptBlocks(extraction.tables)
       /\ \A j \in BlockRows(extraction.tables, q) :
            ~RowHasPrice(extraction.tables[q[1]].rows[j])

\* The dedup key of a record, the records of the page with the key of
\* record u, and where a URL first occurs in their image lists.
DedupKey(p) == IF p.partNumber # "" THEN p.partNumber ELSE p.name
Occurrences(u) ==
  {i \in 1..Len(extraction.parts) : DedupKey(extraction.parts[i]) = DedupKey(u)}
Listed(u, url) ==
  {q \in Occurrences(u) \X (1..Len(u.imageUrls)) :
     /\ q[2] <= Len(extraction.parts[q[1]].imageUrls)
     /\ extraction.parts[q[1]].imageUrls[q[2]] = url}
FirstListed(u, url) ==
  CHOOSE q \in Listed(u, url) : \A r \in Listed(u, url) : q = r \/ Before(q, r)

\* C39: the records of uniqueParts have pairwise distinct keys, one for
\* every key of the page and in the order of the first occurrences; each is
\* the first occurrence of its key but for its image list, which holds
\* every URL listed by an occurrence once, in the order of first listing,
\* and for its primary image, which is that of the first occurrence that
\* has one.
C39_ExtractionDedup ==
  extraction.called =>
    LET parts0 == extraction.parts
        unique == extraction.uniqueParts
    IN /\ \A j \in 1..Len(unique) : \A k \in 1..Len(unique) :
            j # k => DedupKey(unique[j]) # DedupKey(unique[k])
       /\ \A i \in 1..Len(parts0) :
            \E k \in 1..Len(unique) : DedupKey(unique[k]) = DedupKey(parts0[i])
       /\ \A k \in 1..Len(unique) :
            LET u == unique[k]
                occ == Occurrences(u)
                first == CHOOSE i \in occ : \A h \in occ : i <= h
                withImage == {i \in occ : parts0[i].imageUrl # NULL}
                firstImage == CHOOSE i \in withImage : \A h \in withImage : i <= h
            IN /\ occ # {}
               /\ \A j \in 1..(k - 1) :
                    \E i \in Occurrences(unique[j]) : i < first
               /\ u = [parts0[first] EXCEPT !.imageUrls = u.imageUrls,
                                            !.imageUrl = u.imageUrl]
               /\ u.imageUrl = IF withImage = {} THEN NULL
                               ELSE parts0[firstImage].imageUrl
               /\ \A i \in occ : \A m \in 1..Len(parts0[i].imageUrls) :
                    \E x \in 1..Len(u.imageUrls) :
                      u.imageUrls[x] = parts0[i].imageUrls[m]
               /\ \A x \in 1..Len(u.imageUrls) :
                    /\ Listed(u, u.imageUrls[x]) # {}
                    /\ \A y \in (x + 1)..Len(u.imageUrls) :
                         /\ u.imageUrls[x] # u.imageUrls[y]
                         /\ Before(FirstListed(u, u.imageUrls[x]),
                                   FirstListed(u, u.imageUrls[y]))

\* C39: a page has been extracted on which a key occurs three times, the
\* first time without an image, and the merged image list is that of none
\* of the occurrences.
C39_Witness ==
  /\ extraction.called
  /\ \E k \in 1..Len(extraction.uniqueParts) :
       LET u == extraction.uniqueParts[k]
           occ == Occurrences(u)
       IN /\ Cardinality(occ) = 3
          /\ \A i \in occ : extraction.parts[i].imageUrls # u.imageUrls
          /\ \E i \in occ : /\ \A h \in occ : i <= h
                            /\ extraction.parts[i].imageUrl = NULL
          /\ u.imageUrl # NULL

\* A path that stays below the directory it is joined to: at least one
\* segment, none of them empty, '.' or '..'.
SafePath(path) ==
  /\ path # <<>>
  /\ \A k \in 1..Len(path) : path[k] \notin {"", ".", ".."}

\* C40: the local path derived from a URL is NULL or a relative path with
\* no empty, '.' or '..' segment; every file of the images directory and
\* every backup is at such a path; a call for a URL with no local path
\* fails and leaves the files and the backups as they were, whatever the
\* site would answer.
C40_LocalPathSafety ==
  [][DownloadStep =>
       /\ DownloadPath = NULL \/ SafePath(DownloadPath)
       /\ \A path \in DOMAIN files' : SafePath(path)
       /\ \A path \in DOMAIN backups' : SafePath(path)
       /\ \A path \in DOMAIN files' \ DOMAIN files : path = DownloadPath
       /\ DownloadPath = NULL =>
            /\ ~dl'.result.ok
            /\ files' = files
            /\ backups' = backups
  ]_vars

\* C40: a URL whose path climbs out of the marker directory has been
\* downloaded over an existing local file, which was backed up, and a call
\* for a URL without a local path has failed although the site answered.
C40_Witness ==
  /\ dl.url = UrlNoPath
  /\ dl.getOk
  /\ ~dl.result.ok
  /\ getLocalImagePathFromUrl(UrlTraversal) \in DOMAIN files
  /\ files[getLocalImagePathFromUrl(UrlTraversal)] = Served(UrlTraversal)
  /\ backups # <<>>

====
